---- MODULE Spec2Model ----
(***************************************************************************)
(* The gravitational-wave transient likelihoods of bilby/gw/likelihood.py: *)
(* GravitationalWaveTransient (construction, log_likelihood_ratio and the  *)
(* reconstruction of marginalized parameters), its distance lookup table   *)
(* cache, and the ROQ likelihood's calculate_snrs.                         *)
(*                                                                         *)
(* The specifications share the variables below:                           *)
(*   Spec       the likelihood object: __init__, the sampler writing       *)
(*              parameters, log_likelihood_ratio, reconstruction           *)
(*   SpecTable  _setup_distance_marginalization and the cache file         *)
(*   SpecROQ    ROQGravitationalWaveTransient evaluation                   *)
(*   SpecInit   construction in detail: priors, waveform generator, ROQ    *)
(*              weights and parameter checks                               *)
(*   SpecSample the draws of a reconstructed posterior sample              *)
(*   SpecConc   two callers evaluating one likelihood object               *)
(*   SpecNoise  noise_log_likelihood on the detectors' data                *)
(*   SpecSignal log_likelihood_ratio from the detector responses           *)
(*   SpecGrid   the ROQ time samples: _set_weights and calculate_snrs      *)
(*   SpecTimeSample  generate_time_sample_from_marginalized_likelihood     *)
(*   SpecTimeGrid    the time grid of the time marginalization             *)
(*   SpecBands  setup_multibanding of the multi-banded likelihood, and     *)
(*              SpecBandsLive, the same with its loops taken fairly        *)
(***************************************************************************)
EXTENDS Integers, Sequences, FiniteSets, TLC

VARIABLES
    obj,                          \* "none" | "ready" | "failed": the likelihood object
    time_marginalization,         \* self.time_marginalization
    distance_marginalization,     \* self.distance_marginalization
    phase_marginalization,        \* self.phase_marginalization
    calibration_marginalization,  \* self.calibration_marginalization
    jitter_time,                  \* self.jitter_time
    time_reference,               \* self.time_reference: "geocent" | "H1"
    number_of_response_curves,    \* self.number_of_response_curves
    parameters,                   \* self.parameters
    ret,                          \* what the last call did and returned
    distance_array,               \* self._distance_array
    distance_prior_array,         \* self.distance_prior_array
    ref_dist,                     \* self._ref_dist
    lookup_table_filename,        \* self._lookup_table_filename
    dist_margd_loglikelihood_array,  \* self._dist_margd_loglikelihood_array
    files,                        \* the cache files on disk, by name
    tret,                         \* what the last table setup did
    roq_parameters,               \* self.parameters of the ROQ likelihood
    rret,                         \* what the last call of the ROQ likelihood did
    priors,                       \* the priors dict the caller passes to __init__
    self_priors,                  \* self._prior, the likelihood's own priors
    waveform_generator,           \* duration, sampling_frequency, start_time of the generator
    weights,                      \* self.weights of the ROQ likelihood
    call,                         \* the arguments and outcome of the last constructor call
    sampling,                     \* the draws of the last posterior sample generated
    threads,                      \* the evaluations in progress, one per caller
    ifo_data,                     \* the interferometers' strain, PSD, mask and duration
    signals,                      \* the detector responses of the last evaluation on the data
    grid,                         \* the ROQ time samples and the last lookup in them
    tgrid,                        \* the time grid of the time marginalization and its last use
    mb                            \* the multi-banding setup: its position, locals and results

gwVars == <<obj, time_marginalization, distance_marginalization,
            phase_marginalization, calibration_marginalization, jitter_time,
            time_reference, number_of_response_curves, parameters, ret>>

tableVars == <<distance_array, distance_prior_array, ref_dist, lookup_table_filename,
               dist_margd_loglikelihood_array, files, tret>>

roqVars == <<roq_parameters, rret>>

objVars == <<priors, self_priors, waveform_generator, weights, call, sampling, threads, ifo_data,
              signals>>

\* what the setup computations keep
setupVars == <<grid, tgrid, mb>>

initVars == <<objVars, setupVars>>

\* what the actions of the likelihood object leave alone
notGw == <<tableVars, roqVars, initVars>>

vars == <<gwVars, tableVars, roqVars, initVars>>

(***************************************************************************)
(* Floating point values.  A float is an integer in -REALMAX..REALMAX, or  *)
(* one of the two infinities.  REALMAX stands for the largest finite       *)
(* double, the value np.nan_to_num gives to an infinity.                   *)
(***************************************************************************)
REALMAX == 100

NegInf == -(REALMAX + 1)

PosInf == REALMAX + 1

Floats == NegInf..PosInf

Abs(x) == IF x < 0 THEN -x ELSE x

\* nan_to_num left out: the infinity itself is returned
NanToNum_identity(x) == x

\* np.nan_to_num: an infinity becomes the finite float of largest magnitude
NanToNum(x) ==
    IF x = NegInf THEN -REALMAX
    ELSE IF x = PosInf THEN REALMAX
    ELSE x

\* a float so large that adding it to one like it overflows
Huge(x) == 2 * Abs(x) > REALMAX

\* IEEE addition: infinities absorb; a huge float absorbs one that is not
\* (the sum rounds back to it); two huge floats overflow to an infinity when
\* their sum is past REALMAX
FAdd(a, b) ==
    IF a = NegInf \/ b = NegInf THEN NegInf
    ELSE IF a = PosInf \/ b = PosInf THEN PosInf
    ELSE IF Huge(a) /\ ~Huge(b) THEN a
    ELSE IF Huge(b) /\ ~Huge(a) THEN b
    ELSE IF a + b > REALMAX THEN PosInf
    ELSE IF a + b < -REALMAX THEN NegInf
    ELSE a + b

FNeg(a) == -a

FSub(a, b) == FAdd(a, FNeg(b))

\* x / 2 for the optimal SNR squared (the model draws even values)
FHalf(x) == IF x = NegInf \/ x = PosInf THEN x ELSE x \div 2

(***************************************************************************)
(* Array shapes.  A shape is a sequence of axis lengths, <<>> for a        *)
(* scalar; NoneArr stands for Python's None where an array is expected.    *)
(***************************************************************************)
NoneArr == <<0>>

Scalar == <<>>

RECURSIVE Size(_)
Size(s) == IF s = <<>> THEN 1 ELSE Head(s) * Size(Tail(s))

Max(a, b) == IF a >= b THEN a ELSE b

\* numpy broadcasting of one axis
AxisOk(a, b) == a = b \/ a = 1 \/ b = 1

\* numpy broadcasting of two shapes of at most two axes, aligned on the right
PadLeft(s) == IF Len(s) = 0 THEN <<1, 1>> ELSE IF Len(s) = 1 THEN <<1, s[1]>> ELSE s

Broadcastable(a, b) ==
    /\ AxisOk(PadLeft(a)[1], PadLeft(b)[1])
    /\ AxisOk(PadLeft(a)[2], PadLeft(b)[2])

BroadcastShape(a, b) ==
    LET n == Max(Len(a), Len(b))
        full == <<Max(PadLeft(a)[1], PadLeft(b)[1]), Max(PadLeft(a)[2], PadLeft(b)[2])>>
    IN  SubSeq(full, 3 - n, 2)

(***************************************************************************)
(* Bounds of the model.                                                    *)
(***************************************************************************)
MaxCurves == 2      \* number_of_response_curves ranges over 1..MaxCurves

NTimes == 3         \* entries of the time grid (FFT output bins)

MaxTime == 2        \* geocent_time and detector times range over 0..MaxTime

MaxJitter == 1      \* time_jitter ranges over -MaxJitter..MaxJitter

MaxSnr == 1         \* d_inner_h in -MaxSnr..MaxSnr, optimal_snr_squared in {0, 2, .., 2*MaxSnr}

Flags == BOOLEAN

TimeReferences == {"geocent", "H1"}

DVals == (-MaxSnr)..MaxSnr

HVals == {2 * k : k \in 0..MaxSnr}

(***************************************************************************)
(* The record kept of the last call.                                       *)
(***************************************************************************)
NoRet ==
    [op |-> "none", kind |-> "none", err |-> "", top |-> "", inner |-> "",
     scalar |-> FALSE, val |-> 0, wfNone |-> FALSE, gt_entry |-> 0, gt_snr |-> 0,
     d_inner_h |-> 0, optimal_snr_squared |-> 0, priorsGiven |-> FALSE]

NoParameters == [geocent_time |-> 0, time_jitter |-> 0, H1_time |-> 0, recalib_index |-> FALSE]

(***************************************************************************)
(* GravitationalWaveTransient.__init__                                     *)
(***************************************************************************)
\* the priors setter: no priors with a time, phase or distance marginalization
PriorsSetterRaises(tm, dm, pm, priorsGiven) ==
    ~priorsGiven /\ (tm \/ pm \/ dm)

\* the time_reference block left out
InitTimeMarginalization_as_requested(tm, tref) == tm

\* time marginalization after the time_reference block of __init__
InitTimeMarginalization(tm, tref) ==
    IF tref # "geocent" THEN FALSE ELSE tm

\* jitter_time after the time_reference and time marginalization blocks
InitJitterTime(tm, jt, tref) ==
    IF tref # "geocent" /\ tm THEN FALSE
    ELSE IF InitTimeMarginalization(tm, tref) THEN jt
    ELSE FALSE

GWT_init(tm, dm, pm, cm, jt, tref, nc, priorsGiven) ==
    IF PriorsSetterRaises(tm, dm, pm, priorsGiven)
    THEN /\ obj' = "failed"
         /\ ret' = [NoRet EXCEPT !.op = "init", !.kind = "raise", !.err = "ValueError",
                               !.priorsGiven = priorsGiven]
         /\ UNCHANGED <<time_marginalization, distance_marginalization,
                        phase_marginalization, calibration_marginalization,
                        jitter_time, time_reference, number_of_response_curves,
                        parameters>>
    ELSE IF cm /\ ~priorsGiven
    THEN \* _setup_calibration_marginalization reads self.priors.keys()
         /\ obj' = "failed"
         /\ ret' = [NoRet EXCEPT !.op = "init", !.kind = "raise", !.err = "AttributeError",
                               !.priorsGiven = priorsGiven]
         /\ UNCHANGED <<time_marginalization, distance_marginalization,
                        phase_marginalization, calibration_marginalization,
                        jitter_time, time_reference, number_of_response_curves,
                        parameters>>
    ELSE /\ obj' = "ready"
         /\ time_marginalization' = InitTimeMarginalization(tm, tref)
         /\ distance_marginalization' = dm
         /\ phase_marginalization' = pm
         /\ calibration_marginalization' = cm
         /\ jitter_time' = InitJitterTime(tm, jt, tref)
         /\ time_reference' = tref
         /\ number_of_response_curves' = nc
         /\ parameters' = NoParameters
         /\ ret' = [NoRet EXCEPT !.op = "init", !.kind = "value", !.priorsGiven = priorsGiven]

Construct ==
    /\ UNCHANGED notGw
    /\ obj # "ready"
    /\ \E tm \in Flags, dm \in Flags, pm \in Flags, cm \in Flags, jt \in Flags,
          tref \in TimeReferences, nc \in 1..MaxCurves, priorsGiven \in BOOLEAN :
        GWT_init(tm, dm, pm, cm, jt, tref, nc, priorsGiven)

(***************************************************************************)
(* The sampler writes a sample into self.parameters before an evaluation.  *)
(* dict.update keeps the keys the sample does not hold, so a recalib_index *)
(* left by a reconstruction stays.                                         *)
(***************************************************************************)
SetParameters ==
    /\ UNCHANGED notGw
    /\ obj = "ready"
    /\ \E gt \in 0..MaxTime, tj \in (-MaxJitter)..MaxJitter, ht \in 0..MaxTime :
        /\ ~jitter_time => tj = 0
        /\ time_reference = "geocent" => ht = 0
        /\ parameters' = [parameters EXCEPT !.geocent_time = gt, !.time_jitter = tj,
                                            !.H1_time = ht]
    /\ ret' = [NoRet EXCEPT !.op = "set"]
    /\ UNCHANGED <<obj, time_marginalization, distance_marginalization,
                   phase_marginalization, calibration_marginalization, jitter_time,
                   time_reference, number_of_response_curves>>

(***************************************************************************)
(* get_sky_frame_parameters, as merged into parameters by                  *)
(* self.parameters.update(...): with a detector time reference the         *)
(* geocenter time is the detector time minus the light travel delay.       *)
(***************************************************************************)
get_sky_frame_parameters(p, delay) ==
    IF time_reference # "geocent"
    THEN [p EXCEPT !.geocent_time = p.H1_time - delay]
    ELSE p

(***************************************************************************)
(* calculate_snrs: the shapes of d_inner_h_array and                       *)
(* optimal_snr_squared_array it returns (None when it sets neither).       *)
(***************************************************************************)
calculate_snrs(p) ==
    IF time_marginalization /\ calibration_marginalization
    THEN [d_inner_h_array |-> <<number_of_response_curves, NTimes>>,
          optimal_snr_squared_array |-> <<number_of_response_curves>>]
    ELSE IF time_marginalization /\ ~calibration_marginalization
    THEN [d_inner_h_array |-> <<NTimes>>, optimal_snr_squared_array |-> NoneArr]
    ELSE IF calibration_marginalization /\ ~p.recalib_index
    THEN [d_inner_h_array |-> <<number_of_response_curves>>,
          optimal_snr_squared_array |-> <<number_of_response_curves>>]
    ELSE [d_inner_h_array |-> NoneArr, optimal_snr_squared_array |-> NoneArr]

(***************************************************************************)
(* The reductions.  Each returns [kind, err, inner, shape]: the shape of   *)
(* the per-sample log-likelihood array, and which per-sample formula made  *)
(* it.                                                                     *)
(***************************************************************************)
Reduced(inner, shape) == [kind |-> "value", err |-> "", inner |-> inner, shape |-> shape]

Raised(err, inner) == [kind |-> "raise", err |-> err, inner |-> inner, shape |-> Scalar]

\* the tabulated interpolator is evaluated elementwise on equal shapes, or
\* with a single-element argument
InterpElementwise(dshape, hshape) ==
    dshape = hshape \/ Size(dshape) = 1 \/ Size(hshape) = 1

\* distance_marginalized_likelihood: _setup_rho, then the interpolation of the
\* table; interp_ok is what the interpolator does with unequal shapes, which
\* no line of the likelihood checks or decides
distance_marginalized_likelihood(dshape, hshape, interp_ok) ==
    IF InterpElementwise(dshape, hshape) \/ interp_ok
    THEN Reduced("distance", dshape)
    ELSE Raised("ValueError", "distance")

\* phase_marginalized_likelihood
phase_marginalized_likelihood(dshape, hshape) ==
    IF calibration_marginalization /\ time_marginalization
    THEN IF Len(dshape) < 2
         THEN Raised("IndexError", "phase")
         ELSE LET outer == <<Size(hshape), dshape[2]>>
              IN  IF Broadcastable(dshape, outer)
                  THEN Reduced("phase", BroadcastShape(dshape, outer))
                  ELSE Raised("ValueError", "phase")
    ELSE IF Broadcastable(dshape, hshape)
         THEN Reduced("phase", BroadcastShape(dshape, hshape))
         ELSE Raised("ValueError", "phase")

\* scipy's logsumexp without an axis reduces an array to one number; its
\* weights b must broadcast against the array
Logsumexp(r, bshape) ==
    IF r.kind = "raise" THEN r
    ELSE IF Broadcastable(r.shape, bshape) THEN [r EXCEPT !.shape = Scalar]
    ELSE Raised("ValueError", r.inner)

\* time_marginalized_likelihood
time_marginalized_likelihood(dshape, hshape, interp_ok) ==
    LET log_l_tc_array ==
            IF distance_marginalization
            THEN distance_marginalized_likelihood(dshape, hshape, interp_ok)
            ELSE IF phase_marginalization
            THEN phase_marginalized_likelihood(dshape, hshape)
            ELSE IF Broadcastable(dshape, hshape)
                 THEN Reduced("plain", BroadcastShape(dshape, hshape))
                 ELSE Raised("ValueError", "plain")
    IN  Logsumexp(log_l_tc_array, <<NTimes>>)

\* time_and_calibration_marginalized_likelihood
time_and_calibration_marginalized_likelihood(dshape, hshape, interp_ok) ==
    LET outer == <<Size(hshape), dshape[2]>>
        log_l_array ==
            IF distance_marginalization
            THEN distance_marginalized_likelihood(dshape, hshape, interp_ok)
            ELSE IF phase_marginalization
            THEN phase_marginalized_likelihood(dshape, hshape)
            ELSE IF Broadcastable(dshape, outer)
                 THEN Reduced("plain", BroadcastShape(dshape, outer))
                 ELSE Raised("ValueError", "plain")
    IN  Logsumexp(log_l_array, <<Size(hshape), dshape[2]>>)

\* calibration_marginalized_likelihood
calibration_marginalized_likelihood(dshape, hshape, interp_ok) ==
    LET log_l_cal_array ==
            IF distance_marginalization
            THEN distance_marginalized_likelihood(dshape, hshape, interp_ok)
            ELSE IF phase_marginalization
            THEN phase_marginalized_likelihood(dshape, hshape)
            ELSE IF Broadcastable(dshape, hshape)
                 THEN Reduced("plain", BroadcastShape(dshape, hshape))
                 ELSE Raised("ValueError", "plain")
    IN  Logsumexp(log_l_cal_array, Scalar)

\* a failed evaluation leaves the jitter in geocent_time; the stored time is
\* kept within MaxDrift jitters of the sampled range
MaxDrift == 2

GeocentRange == (-1 - MaxDrift * MaxJitter)..(MaxTime + MaxDrift * MaxJitter)

(***************************************************************************)
(* log_likelihood_ratio                                                    *)
(***************************************************************************)
\* self.interferometers: the detectors, in the order of the loop
Interferometers == <<"H1", "L1">>

Ifos == 1..Len(Interferometers)

\* the detectors' terms when the call reads none of them
NoSnrs == [i \in Ifos |-> 0]

RECURSIVE FSum(_)
FSum(xs) == IF xs = <<>> THEN 0 ELSE FAdd(Head(xs), FSum(Tail(xs)))

\* the jitter is added in the time+calibration branch and in the time branch
\* that set up the per-sample arrays
AddJitter(p) ==
    IF time_marginalization /\ calibration_marginalization
    THEN (IF jitter_time THEN [p EXCEPT !.geocent_time = @ + p.time_jitter] ELSE p)
    ELSE IF time_marginalization
    THEN (IF jitter_time THEN [p EXCEPT !.geocent_time = @ + p.time_jitter] ELSE p)
    ELSE p

\* the time branch tested before the calibration branches
TopLevel_time_first ==
    IF time_marginalization THEN "time"
    ELSE IF calibration_marginalization THEN "calibration"
    ELSE IF distance_marginalization THEN "distance"
    ELSE IF phase_marginalization THEN "phase"
    ELSE "plain"

\* the top-level reduction chosen by the if/elif chain after the detector loop
TopLevel ==
    IF calibration_marginalization /\ time_marginalization THEN "time_calibration"
    ELSE IF calibration_marginalization THEN "calibration"
    ELSE IF time_marginalization THEN "time"
    ELSE IF distance_marginalization THEN "distance"
    ELSE IF phase_marginalization THEN "phase"
    ELSE "plain"

\* log_l of the chosen branch, from the summed scalars and the array shapes
Reduce(top, d_inner_h_array, optimal_snr_squared_array, interp_ok) ==
    IF top = "time_calibration"
    THEN time_and_calibration_marginalized_likelihood(
             d_inner_h_array, optimal_snr_squared_array, interp_ok)
    ELSE IF top = "calibration"
    THEN calibration_marginalized_likelihood(
             d_inner_h_array, optimal_snr_squared_array, interp_ok)
    ELSE IF top = "time"
    THEN time_marginalized_likelihood(d_inner_h_array, Scalar, interp_ok)
    ELSE IF top = "distance"
    THEN distance_marginalized_likelihood(Scalar, Scalar, interp_ok)
    ELSE IF top = "phase"
    THEN phase_marginalized_likelihood(Scalar, Scalar)
    ELSE Reduced("plain", Scalar)

\* the subtraction missing from the time-only branch
SubJitter_joint_only(p, top) ==
    IF top = "time_calibration"
    THEN (IF jitter_time THEN [p EXCEPT !.geocent_time = @ - p.time_jitter] ELSE p)
    ELSE p

\* the jitter is subtracted after the time+calibration and the time reductions
SubJitter(p, top) ==
    IF top = "time_calibration"
    THEN (IF jitter_time THEN [p EXCEPT !.geocent_time = @ - p.time_jitter] ELSE p)
    ELSE IF top = "time"
    THEN (IF jitter_time THEN [p EXCEPT !.geocent_time = @ - p.time_jitter] ELSE p)
    ELSE p

\* the value returned when the waveform generator gives None
WaveformNoneValue == NanToNum(NegInf)

log_likelihood_ratio(wfNone, ds, hs, delay, interp_ok) ==
    LET p1 == get_sky_frame_parameters(parameters, delay)
        p2 == AddJitter(p1)
        per == calculate_snrs(p2)
        d_inner_h == FSum(ds)
        optimal_snr_squared == FSum(hs)
        top == TopLevel
        r == Reduce(top, per.d_inner_h_array, per.optimal_snr_squared_array, interp_ok)
        called == [NoRet EXCEPT !.op = "llr", !.wfNone = wfNone,
                                !.gt_entry = parameters.geocent_time]
    IN  IF wfNone
        THEN /\ parameters' = p1
             /\ ret' = [called EXCEPT !.kind = "value", !.scalar = TRUE,
                                      !.val = WaveformNoneValue,
                                      !.gt_snr = p1.geocent_time]
        ELSE IF \/ (time_marginalization \/ calibration_marginalization)
                    /\ per.d_inner_h_array = NoneArr
                \/ calibration_marginalization
                    /\ per.optimal_snr_squared_array = NoneArr
        THEN \* an accumulator array += None
             /\ parameters' = p2
             /\ ret' = [called EXCEPT !.kind = "raise", !.err = "TypeError",
                                      !.gt_snr = p2.geocent_time]
        ELSE IF r.kind = "raise"
        THEN /\ parameters' = p2
             /\ ret' = [called EXCEPT !.kind = "raise", !.err = r.err, !.top = top,
                                      !.inner = r.inner, !.gt_snr = p2.geocent_time]
        ELSE IF Size(r.shape) # 1
        THEN \* float() of an array of several elements
             /\ parameters' = SubJitter(p2, top)
             /\ ret' = [called EXCEPT !.kind = "raise", !.err = "TypeError", !.top = top,
                                      !.inner = r.inner, !.gt_snr = p2.geocent_time]
        ELSE /\ parameters' = SubJitter(p2, top)
             /\ ret' = [called EXCEPT !.kind = "value", !.top = top, !.inner = r.inner,
                                      !.scalar = (r.shape = Scalar),
                                      !.val = IF top = "plain"
                                              THEN FSub(d_inner_h, FHalf(optimal_snr_squared))
                                              ELSE 0,
                                      !.d_inner_h = d_inner_h,
                                      !.optimal_snr_squared = optimal_snr_squared,
                                      !.gt_snr = p2.geocent_time]

LogLikelihoodRatio ==
    /\ UNCHANGED notGw
    /\ obj = "ready"
    /\ \E wfNone \in BOOLEAN :
        \* inputs the call does not read are held at one value
        \E ds \in (IF wfNone \/ TopLevel # "plain" THEN {NoSnrs} ELSE [Ifos -> DVals]),
           hs \in (IF wfNone \/ TopLevel # "plain" THEN {NoSnrs} ELSE [Ifos -> HVals]),
           delay \in (IF time_reference = "geocent" THEN {0} ELSE 0..1),
           interp_ok \in (IF wfNone \/ ~distance_marginalization THEN {TRUE} ELSE BOOLEAN) :
            log_likelihood_ratio(wfNone, ds, hs, delay, interp_ok)
    /\ parameters'.geocent_time \in GeocentRange
    /\ UNCHANGED <<obj, time_marginalization, distance_marginalization,
                   phase_marginalization, calibration_marginalization, jitter_time,
                   time_reference, number_of_response_curves>>

\* the time+calibration refusal left out
generate_posterior_sample_no_refusal(new_time) ==
    /\ ret' = [NoRet EXCEPT !.op = "gen", !.kind = "value",
                            !.gt_entry = parameters.geocent_time]
    /\ parameters' =
           [parameters EXCEPT
               !.recalib_index = IF calibration_marginalization THEN TRUE ELSE @,
               !.geocent_time = IF time_marginalization THEN new_time ELSE @]

(***************************************************************************)
(* generate_posterior_sample_from_marginalized_likelihood                  *)
(***************************************************************************)
generate_posterior_sample_from_marginalized_likelihood(new_time) ==
    LET called == [NoRet EXCEPT !.op = "gen", !.gt_entry = parameters.geocent_time]
    IN  IF ~(phase_marginalization \/ distance_marginalization
             \/ time_marginalization \/ calibration_marginalization)
        THEN /\ ret' = [called EXCEPT !.kind = "value"]
             /\ UNCHANGED parameters
        ELSE IF calibration_marginalization /\ time_marginalization
        THEN /\ ret' = [called EXCEPT !.kind = "raise", !.err = "AttributeError"]
             /\ UNCHANGED parameters
        ELSE /\ ret' = [called EXCEPT !.kind = "value"]
             /\ parameters' =
                    [parameters EXCEPT
                        !.recalib_index = IF calibration_marginalization THEN TRUE ELSE @,
                        !.geocent_time = IF time_marginalization THEN new_time ELSE @]

GeneratePosteriorSample ==
    /\ UNCHANGED notGw
    /\ obj = "ready"
    /\ \E new_time \in 0..MaxTime :
        generate_posterior_sample_from_marginalized_likelihood(new_time)
    /\ UNCHANGED <<obj, time_marginalization, distance_marginalization,
                   phase_marginalization, calibration_marginalization, jitter_time,
                   time_reference, number_of_response_curves>>

(***************************************************************************)
(* The distance marginalization lookup table and its cache file.           *)
(*                                                                         *)
(* A Python value is [t, shape, v]: its type, its array shape and its      *)
(* elements in order.  The 400 x 800 table built for a configuration is    *)
(* determined by that configuration, which stands for its elements.        *)
(***************************************************************************)
PyArray(seq) == [t |-> "ndarray", shape |-> <<Len(seq)>>, v |-> seq]

PyFloat(x) == [t |-> "float", shape |-> <<>>, v |-> <<x>>]

PyBool(b) == [t |-> "bool", shape |-> <<>>, v |-> <<b>>]

\* np.savez stores every value as an array; np.load gives the arrays back
AsArray(x) == [t |-> "ndarray", shape |-> x.shape, v |-> x.v]

\* np.atleast_1d: a scalar or a 0-d array becomes a one-element array
AtLeast1d(x) ==
    [t |-> "ndarray", shape |-> IF x.shape = <<>> THEN <<1>> ELSE x.shape, v |-> x.v]

\* np.array_equal: same shape and same elements
ArrayEqual(a, b) == a.shape = b.shape /\ a.v = b.v

\* a configuration: distance grid, prior on the grid, reference distance,
\* phase marginalization flag
Config(da, pa, rd, pm) ==
    [distance_array |-> da, prior_array |-> pa, reference_distance |-> rd,
     phase_marginalization |-> pm]

BaseConfig == Config(<<1, 2>>, <<1, 1>>, 1, FALSE)

\* the base configuration and the four that differ from it in one entry
Configs ==
    {BaseConfig,
     Config(<<1, 3>>, <<1, 1>>, 1, FALSE),
     Config(<<1, 2>>, <<1, 2>>, 1, FALSE),
     Config(<<1, 2>>, <<1, 1>>, 2, FALSE),
     Config(<<1, 2>>, <<1, 1>>, 1, TRUE)}

CurrentConfig == Config(distance_array, distance_prior_array, ref_dist, phase_marginalization)

\* the table _create_lookup_table computes from a configuration
TableOf(c) ==
    [t |-> "ndarray", shape |-> <<400, 800>>,
     v |-> <<c.distance_array, c.prior_array, c.reference_distance,
             c.phase_marginalization>>]

NoTable == [t |-> "unset", shape |-> <<>>, v |-> <<>>]

TableKeys ==
    {"distance_array", "prior_array", "lookup_table", "reference_distance",
     "phase_marginalization"}

\* the keyword arguments cache_lookup_table passes to np.savez, as loaded back
CacheContent(c, table) ==
    [key \in TableKeys |->
        IF key = "distance_array" THEN AsArray(PyArray(c.distance_array))
        ELSE IF key = "prior_array" THEN AsArray(PyArray(c.prior_array))
        ELSE IF key = "lookup_table" THEN AsArray(table)
        ELSE IF key = "reference_distance" THEN AsArray(PyFloat(c.reference_distance))
        ELSE AsArray(PyBool(c.phase_marginalization))]

\* a mapping restricted to some of its keys
Restrict(f, keys) == [key \in (DOMAIN f) \cap keys |-> f[key]]

\* file names: a stem and an extension
Name(stem, ext) == [stem |-> stem, ext |-> ext]

NoName == Name("", "")        \* Python's None

DefaultName == Name(".distance_marginalization_lookup", ".npz")

\* the names a caller passes, and the files they can name
CallerNames == {Name("a", ""), Name("a", ".npz")}

FileNames == {Name("a", ""), Name("a", ".npz"), DefaultName}

\* a setter that keeps the name as the caller gave it
cached_lookup_table_filename_setter_as_given(filename) == filename

\* the cached_lookup_table_filename setter appends .npz to a string without it
cached_lookup_table_filename_setter(filename) ==
    IF filename # NoName /\ filename.ext # ".npz"
    THEN Name(filename.stem, ".npz")
    ELSE filename

\* the cached_lookup_table_filename getter turns None into the default name
cached_lookup_table_filename_getter(filename) ==
    IF filename = NoName THEN DefaultName ELSE filename

\* np.savez appends .npz to a name without it
SavezName(filename) ==
    IF filename.ext # ".npz" THEN Name(filename.stem, ".npz") ELSE filename

Absent == [kind |-> "absent", data |-> Restrict(CacheContent(BaseConfig, NoTable), {})]

Unreadable == [kind |-> "unreadable", data |-> Restrict(CacheContent(BaseConfig, NoTable), {})]

Npz(data) == [kind |-> "npz", data |-> data]

\* the values _test_cached_lookup_table compares the loaded ones with
Pairs(c) ==
    [key \in TableKeys \ {"lookup_table"} |->
        IF key = "distance_array" THEN PyArray(c.distance_array)
        ELSE IF key = "prior_array" THEN PyArray(c.prior_array)
        ELSE IF key = "reference_distance" THEN PyFloat(c.reference_distance)
        ELSE PyBool(c.phase_marginalization)]

\* a validation that leaves the reference distance out of the comparison
test_cached_lookup_table_no_reference(loaded_file, c) ==
    \A key \in DOMAIN Pairs(c) \ {"reference_distance"} :
        /\ key \in DOMAIN loaded_file
        /\ ArrayEqual(AtLeast1d(loaded_file[key]), AtLeast1d(Pairs(c)[key]))

\* _test_cached_lookup_table: the pair (match, failure); match alone here
test_cached_lookup_table(loaded_file, c) ==
    \A key \in DOMAIN Pairs(c) :
        /\ key \in DOMAIN loaded_file
        /\ ArrayEqual(AtLeast1d(loaded_file[key]), AtLeast1d(Pairs(c)[key]))

\* the truth value of what _test_cached_lookup_table returns: a pair, which
\* Python takes as true whatever it holds
TestResultTruthy(loaded_file, c) == TRUE

\* cache_lookup_table, as called at the end of _create_lookup_table
cache_lookup_table(fs, filename, c, table) ==
    [fs EXCEPT ![SavezName(cached_lookup_table_filename_getter(filename))] =
        Npz(CacheContent(c, table))]

\* the state threaded through _setup_distance_marginalization
Setup(fs, filename, table, builds, source, kind, err) ==
    [files |-> fs, filename |-> filename, table |-> table, builds |-> builds,
     source |-> source, kind |-> kind, err |-> err]

\* _create_lookup_table: build the table, then cache it
create_lookup_table(st, c) ==
    [st EXCEPT !.files = cache_lookup_table(st.files, st.filename, c, TableOf(c)),
               !.filename = cached_lookup_table_filename_getter(st.filename),
               !.table = TableOf(c),
               !.builds = @ + 1,
               !.source = "built"]

\* load_lookup_table: the state after it and what it returns (Absent for None)
load_lookup_table(st, c) ==
    LET filename == cached_lookup_table_filename_getter(st.filename)
        named == [st EXCEPT !.filename = filename]
        file == st.files[filename]
    IN  IF file.kind = "absent"
        THEN [st |-> named, loaded |-> Absent]
        ELSE IF file.kind = "unreadable"
        THEN \* np.load raises AttributeError: build, return None
             [st |-> create_lookup_table(named, c), loaded |-> Absent]
        ELSE IF test_cached_lookup_table(file.data, c)
        THEN [st |-> named, loaded |-> file]
        ELSE [st |-> named, loaded |-> Absent]

\* the branch of _setup_distance_marginalization for a dict
use_lookup_table(st, lookup_table, c, source) ==
    IF TestResultTruthy(lookup_table.data, c)
    THEN IF "lookup_table" \in DOMAIN lookup_table.data
         THEN [st EXCEPT !.table = lookup_table.data["lookup_table"], !.source = source]
         ELSE [st EXCEPT !.kind = "raise", !.err = "KeyError"]
    ELSE create_lookup_table(st, c)

\* _setup_distance_marginalization; arg is [kind, name, dict]: None, a file
\* name or a dict
setup_distance_marginalization(arg, c) ==
    LET st0 == Setup(files, NoName, NoTable, 0, "", "value", "")
    IN  IF arg.kind \in {"none", "str"}
        THEN LET st1 == [st0 EXCEPT !.filename =
                            cached_lookup_table_filename_setter(arg.name)]
                 l == load_lookup_table(st1, c)
             IN  IF l.loaded.kind = "npz"
                 THEN use_lookup_table(l.st, l.loaded, c, "file")
                 ELSE create_lookup_table(l.st, c)
        ELSE use_lookup_table(st0, arg.dict, c, "dict")

\* what the setup looked at: the cache file as it was, or the dict
Examined(arg) ==
    IF arg.kind \in {"none", "str"}
    THEN files[cached_lookup_table_filename_getter(
                   cached_lookup_table_filename_setter(arg.name))]
    ELSE arg.dict

NoTret ==
    [op |-> "none", kind |-> "none", err |-> "", arg |-> "", name |-> NoName,
     builds |-> 0, source |-> "", examined |-> Absent]

\* the lookup_table arguments: None, a file name, or a dict as np.load gives
\* it: complete for some configuration, or with one key missing
KeySets == {TableKeys} \cup {TableKeys \ {key} : key \in TableKeys}

TableArgs ==
    {[kind |-> "none", name |-> NoName, dict |-> Absent]}
    \cup {[kind |-> "str", name |-> n, dict |-> Absent] : n \in CallerNames}
    \cup {[kind |-> "dict", name |-> NoName,
           dict |-> Npz(Restrict(CacheContent(c, TableOf(c)), TableKeys))] :
             c \in Configs}
    \cup {[kind |-> "dict", name |-> NoName,
           dict |-> Npz(Restrict(CacheContent(BaseConfig, TableOf(BaseConfig)), ks))] :
             ks \in KeySets}

\* the distance marginalization block of __init__
SetupDistanceMarginalization ==
    /\ \E c \in Configs, arg \in TableArgs :
        LET st == setup_distance_marginalization(arg, c)
        IN  /\ distance_array' = c.distance_array
            /\ distance_prior_array' = c.prior_array
            /\ ref_dist' = c.reference_distance
            /\ phase_marginalization' = c.phase_marginalization
            /\ lookup_table_filename' = st.filename
            /\ dist_margd_loglikelihood_array' = st.table
            /\ files' = st.files
            /\ tret' = [op |-> "setup", kind |-> st.kind, err |-> st.err,
                        arg |-> arg.kind, name |-> arg.name, builds |-> st.builds,
                        source |-> st.source, examined |-> Examined(arg)]
    /\ UNCHANGED <<obj, time_marginalization, distance_marginalization,
                   calibration_marginalization, jitter_time, time_reference,
                   number_of_response_curves, parameters, ret, roqVars, initVars>>

\* Between two runs the cache files change behind the program's back; the
\* object of the earlier run is gone by then.
NoObject ==
    /\ distance_array' = BaseConfig.distance_array
    /\ distance_prior_array' = BaseConfig.prior_array
    /\ ref_dist' = BaseConfig.reference_distance
    /\ phase_marginalization' = FALSE
    /\ lookup_table_filename' = NoName
    /\ dist_margd_loglikelihood_array' = NoTable
    /\ tret' = [NoTret EXCEPT !.op = "env"]
    /\ UNCHANGED <<obj, time_marginalization, distance_marginalization,
                   calibration_marginalization, jitter_time, time_reference,
                   number_of_response_curves, parameters, ret, roqVars, initVars>>

\* the file a caller's name leads to
CallerFile == Name("a", ".npz")

\* a cache file written by a version that did not store one of the keys
OldFormatFile ==
    /\ \E key \in TableKeys :
        /\ files[CallerFile].kind = "npz"
        /\ DOMAIN files[CallerFile].data = TableKeys
        /\ files' = [files EXCEPT ![CallerFile] = Npz(Restrict(@.data, TableKeys \ {key}))]
    /\ NoObject

\* a cache file np.load cannot read
UnreadableFile ==
    /\ files[CallerFile].kind # "unreadable"
    /\ files' = [files EXCEPT ![CallerFile] = Unreadable]
    /\ NoObject

\* a cache file deleted
RemoveFile ==
    /\ \E f \in {CallerFile, DefaultName} :
        /\ files[f].kind # "absent"
        /\ files' = [files EXCEPT ![f] = Absent]
    /\ NoObject

TableInit ==
    /\ distance_array = BaseConfig.distance_array
    /\ distance_prior_array = BaseConfig.prior_array
    /\ ref_dist = BaseConfig.reference_distance
    /\ lookup_table_filename = NoName
    /\ dist_margd_loglikelihood_array = NoTable
    /\ files = [f \in FileNames |-> Absent]
    /\ tret = NoTret

NextTable ==
    \/ SetupDistanceMarginalization
    \/ OldFormatFile
    \/ UnreadableFile
    \/ RemoveFile

(***************************************************************************)
(* ROQGravitationalWaveTransient.  Times are integers, Sub of them to one  *)
(* step of weights['time_samples'], so that a time can fall between two    *)
(* samples; they are measured from the start of the data segment.          *)
(***************************************************************************)
NSamples == 6       \* entries of weights['time_samples']

Sub == 2            \* time units to one step of the time samples

MaxDelay == 1       \* time delays from the geocenter range over -MaxDelay..MaxDelay

MaxDistance == 2    \* luminosity_distance ranges over 1..MaxDistance

\* weights['time_samples']: uniformly spaced, the first one Sub after the
\* start of the segment
time_samples == [k \in 1..NSamples |-> Sub * k]

\* Python's int() of the quotient of two floats: truncation toward zero
IntOfQuotient(a, b) == IF a >= 0 THEN a \div b ELSE -((-a) \div b)

\* the upper test off by one
closest_time_indices_off_by_one(time, samples) ==
    LET closest == IntOfQuotient(time - samples[1], samples[2] - samples[1])
        indices == [ii \in 1..5 |-> closest + (ii - 3)]
    IN  [closest |-> closest, indices |-> indices,
         in_bounds |-> indices[1] >= 0 /\ indices[5] < Len(samples) - 1]

\* _closest_time_indices; samples[1] is Python's samples[0], the indices it
\* returns count from 0 as Python's do
closest_time_indices(time, samples) ==
    LET closest == IntOfQuotient(time - samples[1], samples[2] - samples[1])
        indices == [ii \in 1..5 |-> closest + (ii - 3)]
    IN  [closest |-> closest, indices |-> indices,
         in_bounds |-> indices[1] >= 0 /\ indices[5] < Len(samples)]

\* the weights a and b exchanged
interp_five_samples_exchanged(five_times, values, time) ==
    LET S == five_times[2] - five_times[1]
        B == five_times[4] - time
        A == S - B
        R1 == -values[1] + 8 * values[2] - 14 * values[3] + 8 * values[4] - values[5]
        R2 == values[3] - 2 * values[4] + values[5]
        N == 24 * S * S * A * values[3] + 24 * S * S * B * values[4]
               + (A * A * A - A * S * S) * R1 + 4 * (B * B * B - B * S * S) * R2
    IN  IntOfQuotient(N, 24 * S * S * S)

\* _interp_five_samples with a = A / S, b = B / S: the value times 24 S^3 is
\* computed in integers and divided at the end
interp_five_samples(five_times, values, time) ==
    LET S == five_times[2] - five_times[1]
        A == five_times[4] - time
        B == S - A
        R1 == -values[1] + 8 * values[2] - 14 * values[3] + 8 * values[4] - values[5]
        R2 == values[3] - 2 * values[4] + values[5]
        N == 24 * S * S * A * values[3] + 24 * S * S * B * values[4]
               + (A * A * A - A * S * S) * R1 + 4 * (B * B * B - B * S * S) * R2
    IN  IntOfQuotient(N, 24 * S * S * S)

\* interferometer.time_delay_from_geocenter: the sky position puts the two
\* detectors on opposite sides of the geocenter
time_delay_from_geocenter(p, i) == IF i = 1 THEN p.sky ELSE -p.sky

\* ROQGravitationalWaveTransient.calculate_snrs for detector i; the inner
\* products of the waveform with the weights are the waveform's d at each of
\* the five times and its h
roq_calculate_snrs(p, i) ==
    LET ifo_time == p.geocent_time + time_delay_from_geocenter(p, i)
        c == closest_time_indices(ifo_time, time_samples)
    IN  IF ~c.in_bounds
        THEN [ifo_time |-> ifo_time, closest |-> c.closest, in_bounds |-> FALSE,
              interpolated |-> FALSE,
              d_inner_h |-> NanToNum(NegInf), optimal_snr_squared |-> 0]
        ELSE [ifo_time |-> ifo_time, closest |-> c.closest, in_bounds |-> TRUE,
              interpolated |-> TRUE,
              d_inner_h |-> interp_five_samples(
                                [ii \in 1..5 |-> time_samples[c.indices[ii] + 1]],
                                [ii \in 1..5 |-> p.waveform.d], ifo_time),
              optimal_snr_squared |-> p.waveform.h]

\* log I0(x) for x >= 0: 0 at 0, x less a logarithm for large x, a logarithm
\* that is below the rounding of a float near the largest one
ln_i0(x) ==
    IF x = PosInf THEN PosInf
    ELSE IF Huge(x) THEN x
    ELSE IF x <= 1 THEN 0
    ELSE x - 1

\* a float times a positive integer: past the largest float it is an infinity
FMul(a, k) ==
    IF a = NegInf \/ a = PosInf THEN a
    ELSE IF a * k > REALMAX THEN PosInf
    ELSE IF a * k < -REALMAX THEN NegInf
    ELSE a * k

\* the ends of the reference grids of the lookup table, in the model's scale
GridMax == 10

GridNeg == 3

\* _d_inner_h_ref_array and _optimal_snr_squared_ref_array hold the point
InGrid(d_inner_h_ref, h_inner_h_ref) ==
    /\ h_inner_h_ref > 0 /\ h_inner_h_ref <= GridMax
    /\ d_inner_h_ref <= GridMax
    /\ IF phase_marginalization THEN d_inner_h_ref > 0 ELSE d_inner_h_ref >= -GridNeg

\* _interp_dist_margd_loglikelihood: the table's value inside the grids (0
\* stands for it), fill_value = -inf outside
interp_dist_margd_loglikelihood(d_inner_h_ref, h_inner_h_ref) ==
    IF InGrid(d_inner_h_ref, h_inner_h_ref) THEN 0 ELSE NegInf

\* _setup_rho and distance_marginalized_likelihood on scalars
roq_distance_marginalized_likelihood(p, d_inner_h, h_inner_h) ==
    LET h_inner_h_ref == FMul(FMul(h_inner_h, p.luminosity_distance),
                              p.luminosity_distance) \div (ref_dist * ref_dist)
        scaled == FMul(d_inner_h, p.luminosity_distance)
        d_inner_h_ref == IF scaled \in {NegInf, PosInf} THEN scaled
                         ELSE IntOfQuotient(scaled, ref_dist)
    IN  interp_dist_margd_loglikelihood(
            IF phase_marginalization THEN Abs(d_inner_h_ref) ELSE d_inner_h_ref,
            h_inner_h_ref)

\* phase_marginalized_likelihood on scalars
roq_phase_marginalized_likelihood(d_inner_h, h_inner_h) ==
    FSub(ln_i0(Abs(d_inner_h)), FHalf(h_inner_h))

NoRRet ==
    [op |-> "none", kind |-> "none", val |-> 0, wfNone |-> FALSE,
     snrs |-> [i \in Ifos |->
                  [ifo_time |-> 0, closest |-> 0, in_bounds |-> FALSE,
                   interpolated |-> FALSE, d_inner_h |-> 0, optimal_snr_squared |-> 0]]]

NoWaveform == [none |-> TRUE, d |-> 0, h |-> 0]

NoRoqParameters ==
    [geocent_time |-> 0, sky |-> 0, waveform |-> NoWaveform, luminosity_distance |-> 1]

\* ROQGravitationalWaveTransient.__init__: the base constructor without time
\* marginalization, jitter or calibration marginalization
ROQConstruct ==
    /\ obj # "ready"
    /\ \E dm \in Flags, pm \in Flags, priorsGiven \in BOOLEAN :
        GWT_init(FALSE, dm, pm, FALSE, FALSE, "geocent", 1, priorsGiven)
    /\ roq_parameters' = NoRoqParameters
    /\ rret' = [NoRRet EXCEPT !.op = "init"]
    /\ UNCHANGED <<tableVars, initVars>>

\* the values a sample holds under a key
RoqValues(key) ==
    IF key = "geocent_time" THEN 0..(Sub * (NSamples + 1))
    ELSE IF key = "sky" THEN (-MaxDelay)..MaxDelay
    ELSE IF key = "luminosity_distance"
    THEN (IF distance_marginalization THEN 1..MaxDistance ELSE {1})
    ELSE {NoWaveform} \cup {[none |-> FALSE, d |-> d, h |-> h] : d \in DVals, h \in HVals}

\* the sampler updates a key of self.parameters
ROQSetParameters ==
    /\ obj = "ready"
    /\ \E key \in DOMAIN roq_parameters :
        \E value \in RoqValues(key) :
            roq_parameters' = [roq_parameters EXCEPT ![key] = value]
    /\ rret' = [NoRRet EXCEPT !.op = "set"]
    /\ UNCHANGED <<gwVars, tableVars, initVars>>

\* log_likelihood_ratio of the ROQ likelihood: the detector loop with the ROQ
\* calculate_snrs, then the distance, phase or plain branch
roq_log_likelihood_ratio(p) ==
    LET snrs == [i \in Ifos |-> roq_calculate_snrs(p, i)]
        d_inner_h == FSum([i \in Ifos |-> snrs[i].d_inner_h])
        optimal_snr_squared == FSum([i \in Ifos |-> snrs[i].optimal_snr_squared])
        log_l == IF distance_marginalization
                 THEN roq_distance_marginalized_likelihood(p, d_inner_h, optimal_snr_squared)
                 ELSE IF phase_marginalization
                 THEN roq_phase_marginalized_likelihood(d_inner_h, optimal_snr_squared)
                 ELSE FSub(d_inner_h, FHalf(optimal_snr_squared))
    IN  IF p.waveform.none
        THEN [NoRRet EXCEPT !.op = "llr", !.kind = "value", !.wfNone = TRUE,
                            !.val = NanToNum(NegInf)]
        ELSE [NoRRet EXCEPT !.op = "llr", !.kind = "value", !.val = log_l,
                            !.snrs = snrs]

ROQLogLikelihoodRatio ==
    /\ obj = "ready"
    /\ rret' = roq_log_likelihood_ratio(roq_parameters)
    /\ UNCHANGED <<gwVars, tableVars, initVars, roq_parameters>>

ROQInit ==
    /\ roq_parameters = NoRoqParameters
    /\ rret = NoRRet

NextROQ ==
    \/ ROQConstruct
    \/ ROQSetParameters
    \/ ROQLogLikelihoodRatio

(***************************************************************************)
(* Construction in detail (SpecInit): the priors dict the caller passes    *)
(* in, the likelihood's own copy of it, and the waveform generator.        *)
(***************************************************************************)
\* Python's None and a value that is not None
PyNone == <<>>

Some(x) == <<x>>

\* prior objects
Uniform(minimum, maximum) == [type |-> "Uniform", minimum |-> minimum, maximum |-> maximum]

DeltaFunction(peak) == [type |-> "DeltaFunction", minimum |-> peak, maximum |-> peak]

Cosmological(minimum, maximum) == [type |-> "Cosmological", minimum |-> minimum, maximum |-> maximum]

\* a float stored in a priors dict
FloatValue(x) == [type |-> "float", minimum |-> x, maximum |-> x]

is_fixed(prior) == prior.type = "DeltaFunction"

IsPrior(prior) == prior.type \in {"Uniform", "DeltaFunction", "Cosmological"}

\* prior.rescale(0.5) of a prior flat between its bounds
rescale_half(prior) == prior.minimum + (prior.maximum - prior.minimum) \div 2

\* Cosmological.get_corresponding_prior('luminosity_distance'): the bounds
\* converted to luminosity distances
get_corresponding_prior(prior) == Cosmological(2 * prior.minimum, 2 * prior.maximum)

\* a priors object: None, a PriorDict or a CBCPriorDict; d is the dict, the
\* three masses are the bounds the mass priors give (None when they give none)
NoPriors ==
    [kind |-> "None", d |-> [key \in {} |-> Uniform(0, 0)],
     minimum_chirp_mass |-> PyNone, maximum_chirp_mass |-> PyNone,
     minimum_component_mass |-> PyNone]

\* d[key] = value and del d[key]
SetItem(p, key, value) ==
    [p EXCEPT !.d = [k \in (DOMAIN p.d) \cup {key} |-> IF k = key THEN value ELSE p.d[k]]]

DelItem(p, key) == [p EXCEPT !.d = Restrict(p.d, (DOMAIN p.d) \ {key})]

Has(p, key) == key \in DOMAIN p.d

\* the interferometers' duration, sampling_frequency and start_time, in the
\* time units of the time grid
WfgAttributes == {"duration", "sampling_frequency", "start_time"}

delta_tc == 2 * MaxJitter

\* the calibration prior keys: 'recalib' in key and interferometer.name in key
RecalibKeys == [name \in {"H1", "L1"} |->
                   IF name = "H1" THEN {"recalib_H1_amplitude_0"} ELSE {"recalib_L1_amplitude_0"}]

IsRecalibKey(key, name) == key \in RecalibKeys[name]

\* _check_set_duration_and_sampling_frequency_of_waveform_generator: each
\* attribute of the generator is overwritten with the interferometers'
\* value, whether it was None, equal or different; nothing is raised
check_set_duration_and_sampling_frequency_of_waveform_generator(wfg, ifos) ==
    [attribute \in WfgAttributes |-> Some(ifos[attribute])]

\* _check_marginalized_prior_is_set(key) on self.priors
check_marginalized_prior_is_set(sp, key, ifos) ==
    IF Has(sp, key) /\ is_fixed(sp.d[key])
    THEN [kind |-> "raise", err |-> "ValueError", self_priors |-> sp]
    ELSE IF Has(sp, key) /\ IsPrior(sp.d[key])
    THEN [kind |-> "value", err |-> "", self_priors |-> sp]
    ELSE IF key = "geocent_time"
    THEN [kind |-> "value", err |-> "",
          self_priors |-> SetItem(sp, key, Uniform(ifos.start_time,
                                                   ifos.start_time + ifos.duration))]
    ELSE IF key = "luminosity_distance"
    THEN \* redshift, then comoving_distance, each converted if it is there
         LET after(s, k) ==
                 IF s.kind = "raise" \/ ~Has(s.self_priors, k) THEN s
                 ELSE IF s.self_priors.d[k].type # "Cosmological"
                 THEN [s EXCEPT !.kind = "raise", !.err = "TypeError"]
                 ELSE [s EXCEPT !.self_priors =
                           DelItem(SetItem(s.self_priors, "luminosity_distance",
                                           get_corresponding_prior(s.self_priors.d[k])), k)]
         IN  after(after([kind |-> "value", err |-> "", self_priors |-> sp], "redshift"),
                   "comoving_distance")
    ELSE [kind |-> "value", err |-> "", self_priors |-> SetItem(sp, key, Uniform(0, 6))]

\* the arguments of GravitationalWaveTransient.__init__
InitArgs(tm, dm, pm, cm, jt, tref, p, wfg, ifos) ==
    [time_marginalization |-> tm, distance_marginalization |-> dm,
     phase_marginalization |-> pm, calibration_marginalization |-> cm,
     jitter_time |-> jt, time_reference |-> tref, priors |-> p,
     waveform_generator |-> wfg, interferometers |-> ifos]

\* the object and the caller's dict while __init__ runs
InitState(a) ==
    [kind |-> "value", err |-> "", priors |-> a.priors, self_priors |-> NoPriors,
     waveform_generator |-> a.waveform_generator,
     time_marginalization |-> a.time_marginalization,
     jitter_time |-> a.jitter_time, times |-> FALSE,
     marginalized_parameters |-> <<>>, ref_dist |-> PyNone]

InitRaise(s, err) == [s EXCEPT !.kind = "raise", !.err = err]

\* lines 140-146: the flags, the priors setter (a copy of the caller's dict)
\* and the waveform generator
init_priors_and_generator(a, s) ==
    IF PriorsSetterRaises(a.time_marginalization, a.distance_marginalization,
                          a.phase_marginalization, a.priors.kind # "None")
    THEN InitRaise(s, "ValueError")
    ELSE [s EXCEPT !.self_priors = a.priors,
                   !.waveform_generator =
                       check_set_duration_and_sampling_frequency_of_waveform_generator(
                           a.waveform_generator, a.interferometers),
                   !.jitter_time = a.jitter_time]

\* lines 148-157: the time reference
init_time_reference(a, s) ==
    IF s.kind = "raise" THEN s
    ELSE [s EXCEPT !.time_marginalization =
                       InitTimeMarginalization(a.time_marginalization, a.time_reference),
                   !.jitter_time =
                       IF a.time_reference # "geocent" /\ a.time_marginalization
                       THEN FALSE ELSE s.jitter_time]

\* lines 159-176: time marginalization and the time jitter
init_time_marginalization(a, s) ==
    IF s.kind = "raise" THEN s
    ELSE IF s.time_marginalization
    THEN LET c == check_marginalized_prior_is_set(s.self_priors, "geocent_time",
                                                  a.interferometers)
             p1 == SetItem(s.priors, "geocent_time",
                           FloatValue(a.interferometers.start_time))
             p2 == IF s.jitter_time
                   THEN SetItem(p1, "time_jitter", Uniform(-(delta_tc \div 2), delta_tc \div 2))
                   ELSE p1
         IN  IF c.kind = "raise" THEN InitRaise(s, c.err)
             ELSE [s EXCEPT !.self_priors = c.self_priors, !.times = TRUE,
                            !.priors = p2,
                            !.marginalized_parameters = Append(@, "geocent_time")]
    ELSE [s EXCEPT !.jitter_time = FALSE]

\* lines 178-181: phase marginalization
init_phase_marginalization(a, s) ==
    IF s.kind = "raise" \/ ~a.phase_marginalization THEN s
    ELSE LET c == check_marginalized_prior_is_set(s.self_priors, "phase", a.interferometers)
         IN  IF c.kind = "raise" THEN InitRaise(s, c.err)
             ELSE [s EXCEPT !.self_priors = c.self_priors,
                            !.priors = SetItem(s.priors, "phase", FloatValue(0)),
                            !.marginalized_parameters = Append(@, "phase")]

\* lines 183-199: distance marginalization; the reference distance is
\* rescale(0.5) of the distance prior
init_distance_marginalization(a, s) ==
    IF s.kind = "raise" \/ ~a.distance_marginalization THEN s
    ELSE LET c == check_marginalized_prior_is_set(s.self_priors, "luminosity_distance",
                                                  a.interferometers)
         IN  IF c.kind = "raise" THEN InitRaise([s EXCEPT !.self_priors = c.self_priors], c.err)
             ELSE IF ~Has(c.self_priors, "luminosity_distance")
             THEN InitRaise([s EXCEPT !.self_priors = c.self_priors], "KeyError")
             ELSE LET r == rescale_half(c.self_priors.d["luminosity_distance"])
                  IN  [s EXCEPT !.self_priors = c.self_priors,
                                !.ref_dist = Some(r),
                                !.priors = SetItem(DelItem(DelItem(s.priors, "redshift"),
                                                           "comoving_distance"),
                                                   "luminosity_distance", FloatValue(r)),
                                !.marginalized_parameters = Append(@, "luminosity_distance")]

\* lines 201-205 and 965-978: calibration marginalization fixes the
\* calibration priors of self.priors
fix_calibration_priors(sp) ==
    [sp EXCEPT !.d = [key \in DOMAIN sp.d |->
                         IF \E i \in Ifos : IsRecalibKey(key, Interferometers[i])
                         THEN DeltaFunction(0) ELSE sp.d[key]]]

init_calibration_marginalization(a, s) ==
    IF s.kind = "raise" \/ ~a.calibration_marginalization THEN s
    ELSE IF s.self_priors.kind = "None"
    THEN InitRaise(s, "AttributeError")
    ELSE [s EXCEPT !.self_priors = fix_calibration_priors(s.self_priors),
                   !.marginalized_parameters = Append(@, "recalib_index")]

\* GravitationalWaveTransient.__init__ on the priors and the generator
gwt_init(a) ==
    init_calibration_marginalization(a,
        init_distance_marginalization(a,
            init_phase_marginalization(a,
                init_time_marginalization(a,
                    init_time_reference(a,
                        init_priors_and_generator(a, InitState(a)))))))

\* the constructor call of GravitationalWaveTransient
GWTConstructWith(a) ==
    LET s == gwt_init(a)
    IN  /\ obj' = IF s.kind = "raise" THEN "failed" ELSE "ready"
        /\ time_marginalization' = s.time_marginalization
        /\ distance_marginalization' = a.distance_marginalization
        /\ phase_marginalization' = a.phase_marginalization
        /\ calibration_marginalization' = a.calibration_marginalization
        /\ jitter_time' = s.jitter_time
        /\ time_reference' = a.time_reference
        /\ priors' = s.priors
        /\ self_priors' = s.self_priors
        /\ waveform_generator' = s.waveform_generator
        /\ call' = [op |-> "gwt_init", kind |-> s.kind, err |-> s.err, stage |-> "base",
                    ifo |-> 0, args |-> a, times |-> s.times, ref_dist |-> s.ref_dist]
        /\ UNCHANGED <<number_of_response_curves, parameters, ret, tableVars, roqVars,
                       weights, sampling, threads, ifo_data, signals, setupVars>>

\* the priors a caller holds under a key: none, a prior with a range, a
\* fixed one; for a redshift also a prior that is not Cosmological
PriorChoices(key, read) ==
    IF ~read THEN (IF key = "geocent_time" THEN {Some(Uniform(0, 2))} ELSE {PyNone})
    ELSE IF key = "geocent_time" THEN {PyNone, Some(Uniform(0, 2)), Some(DeltaFunction(1))}
    ELSE IF key = "phase" THEN {PyNone, Some(Uniform(0, 6)), Some(DeltaFunction(0))}
    ELSE IF key = "luminosity_distance"
    THEN {PyNone, Some(Uniform(2, 6)), Some(DeltaFunction(4))}
    ELSE IF key = "redshift" THEN {PyNone, Some(Cosmological(1, 2)), Some(Uniform(1, 2))}
    ELSE IF key = "comoving_distance" THEN {PyNone, Some(Cosmological(1, 3))}
    ELSE {PyNone, Some(Uniform(-1, 1))}

PriorKeys ==
    {"geocent_time", "phase", "luminosity_distance", "redshift", "comoving_distance",
     "recalib_H1_amplitude_0", "recalib_L1_amplitude_0"}

\* the dict of the keys a choice was made for
DictOf(c) == [key \in {k \in PriorKeys : c[k] # PyNone} |-> c[key][1]]

PriorsValues(tm, dm, pm, cm) ==
    {NoPriors}
    \cup {[NoPriors EXCEPT !.kind = "PriorDict",
                           !.d = DictOf([geocent_time |-> t, phase |-> ph,
                                         luminosity_distance |-> dl, redshift |-> z,
                                         comoving_distance |-> dc,
                                         recalib_H1_amplitude_0 |-> r1,
                                         recalib_L1_amplitude_0 |-> r2])] :
             t \in PriorChoices("geocent_time", tm), ph \in PriorChoices("phase", pm),
             dl \in PriorChoices("luminosity_distance", dm),
             z \in PriorChoices("redshift", dm),
             dc \in PriorChoices("comoving_distance", dm),
             r1 \in PriorChoices("recalib_H1_amplitude_0", cm),
             r2 \in PriorChoices("recalib_L1_amplitude_0", cm)}

InterferometerAttributes == [duration |-> 2 * NTimes, sampling_frequency |-> 1, start_time |-> 0]

\* the generator's attributes: None, the interferometers' value, another
WfgValues(plain) ==
    IF plain
    THEN [WfgAttributes -> {PyNone, Some(0), Some(1), Some(2 * NTimes)}]
    ELSE {[attribute \in WfgAttributes |-> PyNone]}

GWTConstructWithPriors ==
    /\ obj = "none"
    /\ \E tm \in Flags, dm \in Flags, pm \in Flags, cm \in Flags, jt \in Flags,
          tref \in TimeReferences :
        \E p \in PriorsValues(tm, dm, pm, cm),
           wfg \in WfgValues(~(tm \/ dm \/ pm \/ cm \/ jt)) :
            GWTConstructWith(InitArgs(tm, dm, pm, cm, jt, tref, p, wfg,
                                      InterferometerAttributes))

(***************************************************************************)
(* Construction of the ROQ likelihood.  Frequencies, durations and masses  *)
(* are multiples of the scale factors, so that the scaled bounds are exact.*)
(***************************************************************************)
\* roq_params: the validity range of the basis
RoqParams ==
    [flow |-> 2, fhigh |-> 8, seglen |-> 32,
     chirpmassmin |-> 2, chirpmassmax |-> 8, compmin |-> 2]

ScaleFactors == {1, 2}

\* the arguments of ROQGravitationalWaveTransient.__init__; ifos holds, next
\* to the interferometers' attributes, each detector's band
ROQArgs(dm, pm, p, ifos, w, rp, check, scale, basis_fits) ==
    [base |-> InitArgs(FALSE, dm, pm, FALSE, FALSE, "geocent", p,
                       [attribute \in WfgAttributes |-> PyNone],
                       [attribute \in WfgAttributes |-> ifos[attribute]]),
     bands |-> ifos.bands, weights |-> w, roq_params |-> rp,
     roq_params_check |-> check, roq_scale_factor |-> scale,
     basis_fits |-> basis_fits]

\* _get_time_resolution: the step of the time samples
get_time_resolution(a) == Sub

\* a weights dict
NoWeights == [key \in {} |-> <<>>]

\* ifo.name + '_linear' and ifo.name + '_quadratic'
LinearKey(i) == IF i = 1 THEN "H1_linear" ELSE "L1_linear"

QuadraticKey(i) == IF i = 1 THEN "H1_quadratic" ELSE "L1_quadratic"

WeightsSet(w, key, value) ==
    [k \in (DOMAIN w) \cup {key} |-> IF k = key THEN value ELSE w[k]]

\* np.ceil of a quotient
CeilOfQuotient(a, b) == -((-a) \div b)

\* the time samples of the time prior alone, without the widening
set_weights_time_samples_prior_only(a, sp) ==
    LET time_space == get_time_resolution(a)
        duration == a.base.interferometers.duration
        start_time == a.base.interferometers.start_time
        number_of_time_samples == IntOfQuotient(duration, time_space)
        prior == sp.d["geocent_time"]
        start_idx == Max(0, (prior.minimum - start_time) \div time_space)
        up == CeilOfQuotient(prior.maximum - start_time, time_space)
        end_idx == IF number_of_time_samples - 1 <= up
                   THEN number_of_time_samples - 1 ELSE up
    IN  [k \in 1..Max(0, end_idx + 1 - start_idx) |-> (start_idx + k - 1) * time_space]

\* lines 1519-1537: weights['time_samples'] from the time prior
set_weights_time_samples(a, sp) ==
    LET time_space == get_time_resolution(a)
        duration == a.base.interferometers.duration
        start_time == a.base.interferometers.start_time
        number_of_time_samples == IntOfQuotient(duration, time_space)
        earth_light_crossing_time == 2 * MaxDelay + 5 * time_space
        prior == sp.d["geocent_time"]
        start_idx == Max(0, (prior.minimum - earth_light_crossing_time - start_time)
                                \div time_space)
        up == CeilOfQuotient(prior.maximum + earth_light_crossing_time - start_time,
                             time_space)
        end_idx == IF number_of_time_samples - 1 <= up
                   THEN number_of_time_samples - 1 ELSE up
    IN  [k \in 1..Max(0, end_idx + 1 - start_idx) |-> (start_idx + k - 1) * time_space]

\* the check of the detector's band and the duration alone
perform_roq_params_check_data_only(a, sp, i) ==
    IF /\ a.roq_params_check
       /\ \/ a.bands[i].maximum_frequency > a.roq_params.v.fhigh * a.roq_scale_factor
          \/ a.bands[i].minimum_frequency < a.roq_params.v.flow * a.roq_scale_factor
          \/ a.base.interferometers.duration # a.roq_params.v.seglen \div a.roq_scale_factor
    THEN "BilbyROQParamsRangeError"
    ELSE ""

\* perform_roq_params_check(ifo): "" when it returns, else the exception
perform_roq_params_check(a, sp, i) ==
    LET roq_params == a.roq_params.v
        roq_minimum_frequency == roq_params.flow * a.roq_scale_factor
        roq_maximum_frequency == roq_params.fhigh * a.roq_scale_factor
        roq_segment_length == roq_params.seglen \div a.roq_scale_factor
        roq_minimum_chirp_mass == roq_params.chirpmassmin \div a.roq_scale_factor
        roq_maximum_chirp_mass == roq_params.chirpmassmax \div a.roq_scale_factor
        roq_minimum_component_mass == roq_params.compmin \div a.roq_scale_factor
        ifo == a.bands[i]
    IN  IF ~a.roq_params_check THEN ""
        ELSE IF ifo.maximum_frequency > roq_maximum_frequency
        THEN "BilbyROQParamsRangeError"
        ELSE IF ifo.minimum_frequency < roq_minimum_frequency
        THEN "BilbyROQParamsRangeError"
        ELSE IF a.base.interferometers.duration # roq_segment_length
        THEN "BilbyROQParamsRangeError"
        ELSE IF sp.kind # "CBCPriorDict" THEN ""
        ELSE IF /\ sp.minimum_chirp_mass # PyNone
                /\ sp.minimum_chirp_mass[1] < roq_minimum_chirp_mass
        THEN "BilbyROQParamsRangeError"
        ELSE IF /\ sp.maximum_chirp_mass # PyNone
                /\ sp.maximum_chirp_mass[1] > roq_maximum_chirp_mass
        THEN "BilbyROQParamsRangeError"
        ELSE IF /\ sp.minimum_component_mass # PyNone
                /\ sp.minimum_component_mass[1] < roq_minimum_component_mass
        THEN "BilbyROQParamsRangeError"
        ELSE ""

\* the body of the detector loop of _set_weights for detector i
RECURSIVE set_weights_loop(_, _, _, _)
set_weights_loop(a, sp, w, i) ==
    IF i > Len(Interferometers) THEN [kind |-> "value", err |-> "", weights |-> w, ifo |-> 0]
    ELSE LET err == IF a.roq_params.type # "None"
                    THEN perform_roq_params_check(a, sp, i)
                    ELSE IF ~a.basis_fits THEN "ValueError" ELSE ""
         IN  IF err # ""
             THEN [kind |-> "raise", err |-> err, weights |-> w, ifo |-> i]
             ELSE set_weights_loop(
                      a, sp,
                      WeightsSet(WeightsSet(w, LinearKey(i),
                                            [k \in 1..Len(w["time_samples"]) |-> i]),
                                 QuadraticKey(i), <<i>>),
                      i + 1)

\* _set_weights on the empty dict
set_weights(a, sp) ==
    IF sp.kind = "None"
    THEN [kind |-> "raise", err |-> "TypeError", weights |-> NoWeights, ifo |-> 0]
    ELSE IF ~Has(sp, "geocent_time")
    THEN [kind |-> "raise", err |-> "KeyError", weights |-> NoWeights, ifo |-> 0]
    ELSE set_weights_loop(a, sp,
                          WeightsSet(NoWeights, "time_samples",
                                     set_weights_time_samples(a, sp)),
                          1)

\* load_weights(filename): the format is the extension
load_weights(w) ==
    IF w.ext \notin {".json", ".npz"}
    THEN [kind |-> "raise", err |-> "IOError", weights |-> NoWeights, ifo |-> 0]
    ELSE [kind |-> "value", err |-> "", weights |-> w.content, ifo |-> 0]

\* ROQGravitationalWaveTransient.__init__
roq_init(a) ==
    LET s == gwt_init(a.base)
        w == IF a.weights.type = "dict"
             THEN [kind |-> "value", err |-> "", weights |-> a.weights.content, ifo |-> 0]
             ELSE IF a.weights.type = "str" THEN load_weights(a.weights)
             ELSE set_weights(a, s.self_priors)
    IN  IF s.kind = "raise"
        THEN [kind |-> "raise", err |-> s.err, stage |-> "base", ifo |-> 0,
              weights |-> NoWeights, priors |-> s.priors, self_priors |-> s.self_priors,
              waveform_generator |-> s.waveform_generator]
        ELSE IF a.roq_params.type \notin {"None", "ndarray", "str"}
        THEN [kind |-> "raise", err |-> "TypeError", stage |-> "roq_params", ifo |-> 0,
              weights |-> NoWeights, priors |-> s.priors, self_priors |-> s.self_priors,
              waveform_generator |-> s.waveform_generator]
        ELSE [kind |-> w.kind, err |-> w.err, stage |-> "weights", ifo |-> w.ifo,
              weights |-> w.weights, priors |-> s.priors, self_priors |-> s.self_priors,
              waveform_generator |-> s.waveform_generator]

\* the constructor call: the object exists when nothing was raised
ROQConstructWith(a) ==
    LET r == roq_init(a)
    IN  /\ obj' = IF r.kind = "raise" THEN "failed" ELSE "ready"
        /\ distance_marginalization' = a.base.distance_marginalization
        /\ phase_marginalization' = a.base.phase_marginalization
        /\ priors' = r.priors
        /\ self_priors' = r.self_priors
        /\ waveform_generator' = r.waveform_generator
        /\ weights' = r.weights
        /\ call' = [op |-> "roq_init", kind |-> r.kind, err |-> r.err, stage |-> r.stage,
                    ifo |-> r.ifo, args |-> a]
        /\ UNCHANGED <<time_marginalization, calibration_marginalization, jitter_time,
                       time_reference, number_of_response_curves, parameters, ret,
                       tableVars, roqVars, sampling, threads, ifo_data, signals, setupVars>>

\* the inputs of a construction
Band(minimum_frequency, maximum_frequency) ==
    [minimum_frequency |-> minimum_frequency, maximum_frequency |-> maximum_frequency]

BandValues == {Band(lo, hi) : lo \in {2, 4}, hi \in {8, 16}}

DurationValues == {16, 32}

IfoValues(bandValues) ==
    {[duration |-> T, sampling_frequency |-> 4, start_time |-> 0,
      bands |-> [i \in Ifos |-> b[i]]] :
        T \in DurationValues, b \in [Ifos -> bandValues]}

MassValues(in, out) == {PyNone, Some(in), Some(out)}

\* the priors a ROQ likelihood is given: with a time prior, and with the
\* phase and distance priors the marginalizations ask for
RoqPriorsDict(dm, pm, time) ==
    [key \in (IF time THEN {"geocent_time"} ELSE {})
             \cup (IF pm THEN {"phase"} ELSE {})
             \cup (IF dm THEN {"luminosity_distance"} ELSE {}) |->
        IF key = "geocent_time" THEN Uniform(20, 24)
        ELSE IF key = "phase" THEN Uniform(0, 6)
        ELSE Uniform(2, 6)]

RoqPriorsValues(dm, pm) ==
    {NoPriors}
    \cup {[kind |-> "CBCPriorDict", d |-> RoqPriorsDict(dm, pm, TRUE),
           minimum_chirp_mass |-> m1, maximum_chirp_mass |-> m2,
           minimum_component_mass |-> m3] :
             m1 \in MassValues(2, 1), m2 \in MassValues(4, 8), m3 \in MassValues(2, 1)}
    \cup {[kind |-> "PriorDict", d |-> RoqPriorsDict(dm, pm, time),
           minimum_chirp_mass |-> m1, maximum_chirp_mass |-> Some(4),
           minimum_component_mass |-> Some(2)] :
             m1 \in {Some(2), Some(1)}, time \in BOOLEAN}

RoqParamsValues ==
    {[type |-> t, v |-> RoqParams] : t \in {"None", "ndarray", "str", "list"}}

NoWeightsArg == [type |-> "None", ext |-> "", content |-> NoWeights]

\* construction from the basis matrices: weights is None
ROQConstructFromBasis ==
    /\ obj = "none"
    /\ \E m \in Flags, rp \in RoqParamsValues, check \in BOOLEAN, scale \in ScaleFactors :
        \E p \in RoqPriorsValues(m, m), ifos \in IfoValues(BandValues),
           basis_fits \in (IF rp.type = "None" THEN BOOLEAN ELSE {TRUE}) :
            ROQConstructWith(ROQArgs(m, m, p, ifos, NoWeightsArg, rp, check, scale,
                                     basis_fits))

\* the weights _set_weights builds for a configuration, whatever its range
BuiltWeights(a) ==
    set_weights([a EXCEPT !.roq_params_check = FALSE, !.basis_fits = TRUE,
                          !.weights = NoWeightsArg], a.base.priors).weights

\* weights dicts a caller holds: the ones built for this configuration, the
\* ones built for a later time prior, the ones of a single detector, none
WeightsContents(a) ==
    LET here == BuiltWeights(a)
        later == BuiltWeights([a EXCEPT !.base.priors.d["geocent_time"] = Uniform(24, 28)])
    IN  {here, later, Restrict(here, {"time_samples", "H1_linear", "H1_quadratic"}),
         NoWeights}

WeightsArgValues(a) ==
    {[type |-> t[1], ext |-> t[2], content |-> c] :
        t \in {<<"dict", "">>, <<"str", ".npz">>, <<"str", ".json">>, <<"str", ".txt">>},
        c \in WeightsContents(a)}

\* construction from weights: a dict or the name of a file
ROQConstructFromWeights ==
    /\ obj = "none"
    /\ \E rp \in {r \in RoqParamsValues : r.type \in {"None", "ndarray"}},
          scale \in ScaleFactors,
          p \in {q \in RoqPriorsValues(FALSE, FALSE) :
                    /\ q.kind # "None"
                    /\ Has(q, "geocent_time")
                    /\ q.maximum_chirp_mass = Some(4)
                    /\ q.minimum_component_mass = Some(2)},
          ifos \in IfoValues({Band(2, 8), Band(2, 16)}) :
        LET a == ROQArgs(FALSE, FALSE, p, ifos, NoWeightsArg, rp, TRUE, scale, TRUE)
        IN  \E w \in WeightsArgValues(a) :
                ROQConstructWith([a EXCEPT !.weights = w])

\* the reads of self.weights in calculate_snrs for one detector: "" when
\* every key and index is there, else the exception
read_weights(w, i, ifo_time) ==
    IF "time_samples" \notin DOMAIN w THEN "KeyError"
    ELSE LET c == closest_time_indices(ifo_time, w["time_samples"])
         IN  IF ~c.in_bounds THEN ""
             ELSE IF LinearKey(i) \notin DOMAIN w THEN "KeyError"
             ELSE IF \E k \in 1..5 : c.indices[k] + 1 > Len(w[LinearKey(i)])
             THEN "IndexError"
             ELSE IF QuadraticKey(i) \notin DOMAIN w THEN "KeyError"
             ELSE ""

\* the detector loop of log_likelihood_ratio up to the first exception
RECURSIVE read_weights_loop(_, _, _)
read_weights_loop(w, i, ifo_time) ==
    IF i > Len(Interferometers) THEN [kind |-> "value", err |-> "", ifo |-> 0]
    ELSE IF read_weights(w, i, ifo_time) # ""
    THEN [kind |-> "raise", err |-> read_weights(w, i, ifo_time), ifo |-> i]
    ELSE read_weights_loop(w, i + 1, ifo_time)

\* times of arrival: inside the time prior, and before every time sample
ArrivalTimes == {22, 2}

\* an evaluation of the constructed ROQ likelihood with self.weights
ROQEvaluateWithWeights ==
    /\ obj = "ready"
    /\ call.op = "roq_init"
    /\ \E ifo_time \in ArrivalTimes :
        LET r == read_weights_loop(weights, 1, ifo_time)
        IN  call' = [call EXCEPT !.op = "roq_llr", !.kind = r.kind, !.err = r.err,
                                 !.ifo = r.ifo, !.stage = "evaluation"]
    /\ UNCHANGED <<gwVars, tableVars, roqVars, priors, self_priors, waveform_generator,
                   weights, sampling, threads, ifo_data, signals, setupVars>>

(***************************************************************************)
(* generate_posterior_sample_from_marginalized_likelihood in detail        *)
(* (SpecSample): the draws, what each of them reads, and the signal        *)
(* polarizations, which stand for the distance their amplitude is that of. *)
(***************************************************************************)
NoSampling ==
    [op |-> "none", kind |-> "none", err |-> "", entry |-> 0, signal |-> 0,
     log |-> <<>>, parameters |-> 0]

SampleParameters(recalib_index, geocent_time, time_jitter, luminosity_distance, phase) ==
    [recalib_index |-> recalib_index, geocent_time |-> geocent_time,
     time_jitter |-> time_jitter, luminosity_distance |-> luminosity_distance,
     phase |-> phase]

\* a draw's record: the key, the value drawn, and the parameters and the
\* signal the draw was computed with
Drawn(s, key, value, seen) ==
    Append(s.log, [key |-> key, value |-> value, seen |-> seen, signal |-> s.signal])

\* _rescale_signal: signal[mode] *= self._ref_dist / new_distance, so the
\* distance the amplitude is that of is multiplied by new_distance / ref_dist
rescale_signal(signal, new_distance) == (signal * new_distance) \div ref_dist

\* lines 467-470 and 503-504: the calibration draw
draw_calibration(s, new_calibration) ==
    IF ~calibration_marginalization THEN s
    ELSE LET seen == [s.parameters EXCEPT !.recalib_index = PyNone]
         IN  [s EXCEPT !.log = Drawn(s, "recalib_index", new_calibration, seen),
                       !.parameters = [seen EXCEPT !.recalib_index = Some(new_calibration)]]

\* lines 471-474 and 537-538: the time draw
draw_time(s, new_time) ==
    IF ~time_marginalization THEN s
    ELSE LET seen == IF jitter_time
                     THEN [s.parameters EXCEPT !.geocent_time = @ + s.parameters.time_jitter]
                     ELSE s.parameters
         IN  [s EXCEPT !.log = Drawn(s, "geocent_time", new_time, seen),
                       !.parameters = [seen EXCEPT !.geocent_time = new_time]]

\* lines 475-478 and 619-644: the distance draw, which rescales the signal
draw_distance(s, new_distance) ==
    IF ~distance_marginalization THEN s
    ELSE [s EXCEPT !.log = Drawn(s, "luminosity_distance", new_distance, s.parameters),
                   !.signal = rescale_signal(s.signal, new_distance),
                   !.parameters = [s.parameters EXCEPT !.luminosity_distance = new_distance]]

\* lines 479-482: the phase draw
draw_phase(s, new_phase) ==
    IF ~phase_marginalization THEN s
    ELSE [s EXCEPT !.log = Drawn(s, "phase", new_phase, s.parameters),
                   !.parameters = [s.parameters EXCEPT !.phase = new_phase]]

\* generate_posterior_sample_from_marginalized_likelihood on parameters p;
\* the signal is generated once, from p
generate_posterior_sample(p, new_calibration, new_time, new_distance, new_phase) ==
    LET s0 == [NoSampling EXCEPT !.op = "gen", !.kind = "value", !.parameters = p,
                                 !.entry = p, !.signal = p.luminosity_distance]
    IN  IF ~(phase_marginalization \/ distance_marginalization
             \/ time_marginalization \/ calibration_marginalization)
        THEN s0
        ELSE IF calibration_marginalization /\ time_marginalization
        THEN [s0 EXCEPT !.kind = "raise", !.err = "AttributeError"]
        ELSE draw_phase(draw_distance(draw_time(draw_calibration(s0, new_calibration),
                                                new_time),
                                      new_distance),
                        new_phase)

PhaseValues == {0, 3}

DrawPosteriorSample ==
    /\ obj = "ready"
    /\ \E recalib_index \in (IF calibration_marginalization
                             THEN {PyNone, Some(0)} ELSE {PyNone}),
          time_jitter \in (IF jitter_time THEN {0, MaxJitter} ELSE {0}),
          luminosity_distance \in (IF distance_marginalization \/ phase_marginalization
                                   THEN 1..MaxDistance ELSE {1}),
          new_calibration \in (IF calibration_marginalization
                               THEN 0..(number_of_response_curves - 1) ELSE {0}),
          new_time \in (IF time_marginalization THEN 1..MaxTime ELSE {0}),
          new_distance \in (IF distance_marginalization THEN 1..MaxDistance ELSE {1}),
          new_phase \in (IF phase_marginalization THEN PhaseValues ELSE {0}) :
        sampling' = generate_posterior_sample(
                        SampleParameters(recalib_index, 0, time_jitter,
                                         luminosity_distance, 0),
                        new_calibration, new_time, new_distance, new_phase)
    /\ UNCHANGED <<gwVars, tableVars, roqVars, priors, self_priors, waveform_generator,
                   weights, call, threads, ifo_data, signals, setupVars>>

NextSample ==
    \/ Construct
    \/ DrawPosteriorSample

(***************************************************************************)
(* Two evaluations of one likelihood object, interleaved statement by      *)
(* statement (SpecConc).  self.parameters is the object's; the waveform    *)
(* and the sums are local to a call.  alone is the time the call's         *)
(* detector loop reads when no other call is running.                      *)
(***************************************************************************)
Threads == {1, 2}

IdleThread == [pc |-> "idle", alone |-> 0, used |-> 0]

\* the calls that have added their jitter and not yet subtracted it
Jittering(t) == {u \in Threads \ {t} : threads[u].pc \in {"loop", "reduce"}}

\* the likelihood constructed with priors, with or without time and
\* calibration marginalization and jitter
ConcConstruct ==
    /\ obj # "ready"
    /\ \E tm \in Flags, cm \in Flags, jt \in Flags :
        GWT_init(tm, FALSE, FALSE, cm, jt, "geocent", 1, TRUE)
    /\ UNCHANGED notGw

\* the sampler sets the sample while no evaluation runs
ConcSetParameters ==
    /\ \A t \in Threads : threads[t].pc = "idle"
    /\ SetParameters

\* lines 358-366: the waveform and the sky frame parameters
ConcBegin(t) ==
    /\ obj = "ready"
    /\ threads[t].pc = "idle"
    /\ threads' = [threads EXCEPT ![t] =
           [pc |-> "jitter", used |-> 0,
            alone |-> AddJitter([parameters EXCEPT !.geocent_time =
                          @ - (IF jitter_time
                               THEN Cardinality(Jittering(t)) * parameters.time_jitter
                               ELSE 0)]).geocent_time]]
    /\ UNCHANGED <<gwVars, tableVars, roqVars, priors, self_priors, waveform_generator,
                   weights, call, sampling, ifo_data, signals, setupVars>>

\* lines 369-388: self.parameters['geocent_time'] += self.parameters['time_jitter']
ConcAddJitter(t) ==
    /\ threads[t].pc = "jitter"
    /\ parameters' = AddJitter(parameters)
    /\ threads' = [threads EXCEPT ![t].pc = "loop"]
    /\ UNCHANGED <<obj, time_marginalization, distance_marginalization,
                   phase_marginalization, calibration_marginalization, jitter_time,
                   time_reference, number_of_response_curves, ret, tableVars, roqVars,
                   priors, self_priors, waveform_generator, weights, call, sampling, ifo_data, signals, setupVars>>

\* lines 390-403: calculate_snrs reads self.parameters for every detector
ConcDetectorLoop(t) ==
    /\ threads[t].pc = "loop"
    /\ threads' = [threads EXCEPT ![t].pc = "reduce", ![t].used = parameters.geocent_time]
    /\ UNCHANGED <<gwVars, tableVars, roqVars, priors, self_priors, waveform_generator,
                   weights, call, sampling, ifo_data, signals, setupVars>>

\* lines 405-435: the reduction, the jitter subtracted, the value returned
ConcReturn(t) ==
    /\ threads[t].pc = "reduce"
    /\ parameters' = SubJitter(parameters, TopLevel)
    /\ threads' = [threads EXCEPT ![t].pc = "done"]
    /\ UNCHANGED <<obj, time_marginalization, distance_marginalization,
                   phase_marginalization, calibration_marginalization, jitter_time,
                   time_reference, number_of_response_curves, ret, tableVars, roqVars,
                   priors, self_priors, waveform_generator, weights, call, sampling, ifo_data, signals, setupVars>>

\* the caller takes the value
ConcTaken(t) ==
    /\ threads[t].pc = "done"
    /\ threads' = [threads EXCEPT ![t] = IdleThread]
    /\ UNCHANGED <<gwVars, tableVars, roqVars, priors, self_priors, waveform_generator,
                   weights, call, sampling, ifo_data, signals, setupVars>>

NextConc ==
    \/ ConcConstruct
    \/ ConcSetParameters
    \/ \E t \in Threads : ConcBegin(t)
    \/ \E t \in Threads : ConcAddJitter(t)
    \/ \E t \in Threads : ConcDetectorLoop(t)
    \/ \E t \in Threads : ConcReturn(t)
    \/ \E t \in Threads : ConcTaken(t)

(***************************************************************************)
(* noise_log_likelihood (SpecNoise).  A detector's data are the strain     *)
(* amplitude, the power spectral density and the mask of each frequency    *)
(* bin; amplitudes and durations are such that the quotients are exact.    *)
(***************************************************************************)
NoData ==
    [loaded |-> FALSE, interferometers |-> Interferometers, duration |-> 1,
     strain |-> [i \in Ifos |-> <<0, 0, 0>>],
     psd |-> [i \in Ifos |-> <<1, 1, 1>>],
     mask |-> [i \in Ifos |-> <<TRUE, TRUE, TRUE>>]]

\* array[mask]
Masked(array, mask) ==
    LET kept == {k \in 1..Len(array) : mask[k]}
        RECURSIVE pick(_, _)
        pick(k, acc) == IF k > Len(array) THEN acc
                        ELSE pick(k + 1, IF k \in kept THEN Append(acc, array[k]) ELSE acc)
    IN  pick(1, <<>>)

RECURSIVE SumSeq(_)
SumSeq(seq) == IF seq = <<>> THEN 0 ELSE Head(seq) + SumSeq(Tail(seq))

\* noise_weighted_inner_product(aa, bb, power_spectral_density, duration):
\* 4 / duration * sum(conj(aa) * bb / power_spectral_density)
noise_weighted_inner_product(aa, bb, power_spectral_density, duration) ==
    (4 * SumSeq([k \in 1..Len(aa) |-> (aa[k] * bb[k]) \div power_spectral_density[k]]))
        \div duration

\* the inner product over every bin, masked or not
RECURSIVE noise_log_likelihood_unmasked(_, _)
noise_log_likelihood_unmasked(data, i) ==
    IF i > Len(data.interferometers) THEN 0
    ELSE noise_log_likelihood_unmasked(data, i + 1)
         - noise_weighted_inner_product(data.strain[i], data.strain[i], data.psd[i],
                                        data.duration) \div 2

\* noise_log_likelihood: the detector loop from detector i on
RECURSIVE noise_log_likelihood(_, _)
noise_log_likelihood(data, i) ==
    IF i > Len(data.interferometers) THEN 0
    ELSE noise_log_likelihood(data, i + 1)
         - noise_weighted_inner_product(Masked(data.strain[i], data.mask[i]),
                                        Masked(data.strain[i], data.mask[i]),
                                        Masked(data.psd[i], data.mask[i]),
                                        data.duration) \div 2

\* duration, first detector's strain, PSD and first detector's mask
DataValues ==
    {<<1, <<0, 2, 2>>, <<1, 2, 2>>, <<TRUE, TRUE, TRUE>>>>,
     <<2, <<2, 0, 4>>, <<1, 2, 2>>, <<FALSE, TRUE, TRUE>>>>,
     <<1, <<2, 0, 4>>, <<2, 2, 4>>, <<FALSE, TRUE, FALSE>>>>}

\* the interferometers the likelihood is constructed on
NoiseLoadData ==
    /\ obj = "none"
    /\ ~ifo_data.loaded
    /\ \E v \in DataValues, n \in 1..Len(Interferometers) :
        ifo_data' = [loaded |-> TRUE, interferometers |-> SubSeq(Interferometers, 1, n),
                     duration |-> v[1],
                     strain |-> [i \in Ifos |-> IF i = 1 THEN v[2] ELSE <<2, 2, 2>>],
                     psd |-> [i \in Ifos |-> v[3]],
                     mask |-> [i \in Ifos |-> IF i = 1 THEN v[4]
                                               ELSE <<TRUE, TRUE, FALSE>>]]
    /\ UNCHANGED <<gwVars, tableVars, roqVars, priors, self_priors, waveform_generator,
                   weights, call, sampling, threads, signals, setupVars>>

\* a call of noise_log_likelihood; waveform_generator.duration is the
\* interferometers' duration since line 231
NoiseLogLikelihood ==
    /\ obj = "ready"
    /\ ifo_data.loaded
    /\ ret' = [NoRet EXCEPT !.op = "noise", !.kind = "value",
                            !.val = noise_log_likelihood(ifo_data, 1)]
    /\ UNCHANGED <<obj, time_marginalization, distance_marginalization,
                   phase_marginalization, calibration_marginalization, jitter_time,
                   time_reference, number_of_response_curves, parameters, notGw>>

NextNoise ==
    \/ NoiseLoadData
    \/ Construct
    \/ LogLikelihoodRatio
    \/ GeneratePosteriorSample
    \/ NoiseLogLikelihood

(***************************************************************************)
(* log_likelihood_ratio on the detectors' data: calculate_snrs takes the   *)
(* detector response to the waveform and forms the inner products with the *)
(* strain and with itself.                                                 *)
(***************************************************************************)
NaN == PosInf + 1

RECURSIVE ISqrt(_)
ISqrt(x) == IF x <= 0 THEN 0
            ELSE LET r == ISqrt(x \div 4) * 2
                 IN  IF (r + 1) * (r + 1) <= x THEN r + 1 ELSE r

\* d_inner_h / optimal_snr_squared ** 0.5 on numpy scalars: a quotient by
\* zero is nan or an infinity, with a warning
matched_filter_snr(d_inner_h, optimal_snr_squared) ==
    IF optimal_snr_squared = 0
    THEN (IF d_inner_h = 0 THEN NaN ELSE IF d_inner_h > 0 THEN PosInf ELSE NegInf)
    ELSE d_inner_h \div ISqrt(optimal_snr_squared)

\* a nan in a sum makes the sum nan
snr_sum(a, b) == IF a = NaN \/ b = NaN THEN NaN ELSE FAdd(a, b)

\* the strain's inner product with itself, whatever the signal
inner_product_of_strain(data, signal, i) ==
    noise_weighted_inner_product(Masked(data.strain[i], data.mask[i]),
                                 Masked(data.strain[i], data.mask[i]),
                                 Masked(data.psd[i], data.mask[i]), data.duration)

\* interferometer.inner_product(signal)
inner_product(data, signal, i) ==
    noise_weighted_inner_product(Masked(signal, data.mask[i]),
                                 Masked(data.strain[i], data.mask[i]),
                                 Masked(data.psd[i], data.mask[i]), data.duration)

\* interferometer.optimal_snr_squared(signal)
optimal_snr_squared_of(data, signal, i) ==
    noise_weighted_inner_product(Masked(signal, data.mask[i]),
                                 Masked(signal, data.mask[i]),
                                 Masked(data.psd[i], data.mask[i]), data.duration)

\* the scalar part of what calculate_snrs returns for detector i
calculate_snrs_scalars(data, signal, i) ==
    LET d_inner_h == inner_product(data, signal, i)
        optimal_snr_squared == optimal_snr_squared_of(data, signal, i)
    IN  [d_inner_h |-> d_inner_h, optimal_snr_squared |-> optimal_snr_squared,
         complex_matched_filter_snr |->
             matched_filter_snr(d_inner_h, optimal_snr_squared)]

\* the sum of the detectors' matched filter SNRs, as the loop accumulates it
RECURSIVE complex_matched_filter_snr_sum(_, _)
complex_matched_filter_snr_sum(per, i) ==
    IF i > Len(per) THEN 0
    ELSE snr_sum(per[i].complex_matched_filter_snr,
                 complex_matched_filter_snr_sum(per, i + 1))

\* the detector response to the waveform, by frequency bin
ZeroSignal == <<0, 0, 0>>

SignalValues == {ZeroSignal, <<0, 2, 0>>, <<2, 2, 0>>}

\* the last call's detector responses and per-detector results
NoSignals ==
    [signal |-> [i \in Ifos |-> ZeroSignal],
     per |-> [i \in Ifos |-> [d_inner_h |-> 0, optimal_snr_squared |-> 0,
                              complex_matched_filter_snr |-> 0]],
     complex_matched_filter_snr |-> 0]

\* log_likelihood_ratio with the waveform's detector responses given
LogLikelihoodRatioOfSignal ==
    /\ obj = "ready"
    /\ ifo_data.loaded
    /\ \E signal \in [DOMAIN ifo_data.interferometers -> SignalValues],
          delay \in (IF time_reference = "geocent" THEN {0} ELSE 0..1),
          interp_ok \in (IF ~distance_marginalization THEN {TRUE} ELSE BOOLEAN) :
        LET loop == DOMAIN ifo_data.interferometers
            per == [i \in loop |-> calculate_snrs_scalars(ifo_data, signal[i], i)]
        IN  /\ log_likelihood_ratio(FALSE, [i \in loop |-> per[i].d_inner_h],
                                    [i \in loop |-> per[i].optimal_snr_squared],
                                    delay, interp_ok)
            /\ signals' = [signal |-> signal, per |-> per,
                           complex_matched_filter_snr |->
                               complex_matched_filter_snr_sum(per, 1)]
    /\ parameters'.geocent_time \in GeocentRange
    /\ UNCHANGED <<obj, time_marginalization, distance_marginalization,
                   phase_marginalization, calibration_marginalization, jitter_time,
                   time_reference, number_of_response_curves>>
    /\ UNCHANGED <<tableVars, roqVars, priors, self_priors, waveform_generator,
                   weights, call, sampling, threads, ifo_data, setupVars>>

NextSignal ==
    \/ NoiseLoadData
    \/ Construct
    \/ LogLikelihoodRatioOfSignal

(***************************************************************************)
(* The ROQ time samples and the five-sample interpolation (SpecGrid).      *)
(* _set_weights builds weights['time_samples'] from the time prior;        *)
(* calculate_snrs looks the arrival time up in them and interpolates the   *)
(* linear weights' inner products at the five closest samples.             *)
(***************************************************************************)
\* 2 * radius_of_earth / speed_of_light: twice the largest delay of a
\* detector from the geocenter
LightCrossing == 2 * MaxDelay

NoGrid ==
    [op |-> "none", minimum |-> 0, maximum |-> 0, duration |-> 0, start_time |-> 0,
     start_clipped |-> FALSE, end_clipped |-> FALSE, time_samples |-> <<>>,
     geocent_time |-> 0, dt |-> 0, ifo_time |-> 0, pattern |-> 0, closest |-> 0,
     indices |-> <<>>, in_bounds |-> FALSE, five_times |-> <<>>, values |-> <<>>,
     d_inner_h |-> 0]

\* the arguments of set_weights_time_samples for a time prior on a segment
GridArgs(minimum, maximum, duration, start_time) ==
    [a |-> [base |-> [interferometers |-> [duration |-> duration,
                                           start_time |-> start_time]]],
     sp |-> [d |-> [key \in {"geocent_time"} |-> Uniform(minimum, maximum)]]]

\* the time prior is inside the segment by the widening (FALSE) or at its
\* start (TRUE); the segment ends after the widening (FALSE) or in it (TRUE)
GridValues ==
    {[minimum |-> start_time + (IF early THEN Sub ELSE LightCrossing + 6 * Sub + 1),
      maximum |-> start_time + (IF early THEN Sub ELSE LightCrossing + 6 * Sub + 1) + width,
      duration |-> (IF early THEN Sub ELSE LightCrossing + 6 * Sub + 1) + width
                       + (IF short THEN 3 * Sub ELSE LightCrossing + 8 * Sub),
      start_time |-> start_time] :
        early \in BOOLEAN, short \in BOOLEAN, width \in {0, 1, 2 * Sub},
        start_time \in {0, 3}}

\* lines 1519-1537 of _set_weights for one time prior and segment
GridSetWeights ==
    /\ \E g \in GridValues :
        LET args == GridArgs(g.minimum, g.maximum, g.duration, g.start_time)
            time_space == get_time_resolution(args.a)
            low == (g.minimum - (LightCrossing + 5 * time_space) - g.start_time)
                       \div time_space
            up == CeilOfQuotient(g.maximum + LightCrossing + 5 * time_space - g.start_time,
                                 time_space)
        IN  grid' = [NoGrid EXCEPT
                        !.op = "set_weights", !.minimum = g.minimum,
                        !.maximum = g.maximum, !.duration = g.duration,
                        !.start_time = g.start_time,
                        !.start_clipped = (low < 0),
                        !.end_clipped = (up > IntOfQuotient(g.duration, time_space) - 1),
                        !.time_samples = set_weights_time_samples(args.a, args.sp)]
    /\ UNCHANGED <<gwVars, tableVars, roqVars, objVars, tgrid, mb>>

\* the inner product of the waveform with the linear weights at time sample j
TcPatterns == 1..4

d_inner_h_tc(pattern, j) ==
    IF pattern = 1 THEN 1
    ELSE IF pattern = 2 THEN 3 * j
    ELSE IF pattern = 3 THEN j * j
    ELSE IF j % 2 = 0 THEN 2 ELSE -2

\* lines 1333-1336 and 1352-1369 of the ROQ calculate_snrs on the time samples
grid_calculate_snrs(g, geocent_time, dt, pattern) ==
    LET dt_geocent == geocent_time - g.start_time
        ifo_time == dt_geocent + dt
        c == closest_time_indices(ifo_time, g.time_samples)
        five_times == [ii \in 1..5 |-> g.time_samples[c.indices[ii] + 1]]
        d_inner_h_tc_array == [ii \in 1..5 |-> d_inner_h_tc(pattern, c.indices[ii])]
        called == [g EXCEPT !.op = "calculate_snrs", !.geocent_time = geocent_time,
                            !.dt = dt, !.ifo_time = ifo_time, !.pattern = pattern,
                            !.closest = c.closest, !.indices = c.indices,
                            !.in_bounds = c.in_bounds]
    IN  IF ~c.in_bounds
        THEN [called EXCEPT !.five_times = <<>>, !.values = <<>>,
                            !.d_inner_h = NanToNum(NegInf)]
        ELSE [called EXCEPT !.five_times = five_times, !.values = d_inner_h_tc_array,
                            !.d_inner_h = interp_five_samples(
                                              five_times, d_inner_h_tc_array, ifo_time)]

\* an evaluation at a time in or just outside the time prior
GridCalculateSnrs ==
    /\ grid.op # "none"
    /\ Len(grid.time_samples) >= 2
    /\ \E geocent_time \in (grid.minimum - 1)..(grid.maximum + 1),
          dt \in (-LightCrossing)..LightCrossing, pattern \in TcPatterns :
        grid' = grid_calculate_snrs(grid, geocent_time, dt, pattern)
    /\ UNCHANGED <<gwVars, tableVars, roqVars, objVars, tgrid, mb>>

NextGrid ==
    \/ GridSetWeights
    \/ GridCalculateSnrs

(***************************************************************************)
(* generate_time_sample_from_marginalized_likelihood called on its own     *)
(* (SpecTimeSample).                                                       *)
(***************************************************************************)
\* lines 536-538: the sky frame is merged into parameters and the jitter is
\* added to the stored time; the lines after them read parameters and
\* assign none of them
generate_time_sample(p, delay) ==
    LET p1 == get_sky_frame_parameters(p, delay)
    IN  IF jitter_time THEN [p1 EXCEPT !.geocent_time = @ + p1.time_jitter] ELSE p1

\* a call of the method; new_time is the sample it returns
GenerateTimeSample ==
    /\ UNCHANGED notGw
    /\ obj = "ready"
    /\ \E new_time \in 0..MaxTime,
          delay \in (IF time_reference = "geocent" THEN {0} ELSE 0..1) :
        /\ parameters' = generate_time_sample(parameters, delay)
        /\ ret' = [NoRet EXCEPT !.op = "time_sample", !.kind = "value", !.val = new_time,
                                !.gt_entry = parameters.geocent_time,
                                !.gt_snr = parameters'.geocent_time]
    /\ parameters'.geocent_time \in GeocentRange
    /\ UNCHANGED <<obj, time_marginalization, distance_marginalization,
                   phase_marginalization, calibration_marginalization, jitter_time,
                   time_reference, number_of_response_curves>>

NextTimeSample ==
    \/ Construct
    \/ SetParameters
    \/ GenerateTimeSample

(***************************************************************************)
(* The time grid of the time marginalization (SpecTimeGrid).  Times are    *)
(* integers; the sampling frequencies are 1 and 2 per unit of time, so     *)
(* 2 / sampling_frequency is an integer.                                   *)
(***************************************************************************)
NoTimeGrid ==
    [op |-> "none", start_time |-> 0, duration |-> 0, sampling_frequency |-> 1,
     delta_tc |-> 0, times |-> <<>>, bins |-> 0, geocent_time |-> 0, time_jitter |-> 0,
     prior |-> [minimum |-> 0, maximum |-> 0], time_prior_array |-> <<>>,
     sample_times |-> <<>>]

\* np.linspace(0, stop, num) with the step an integer
linspace(stop, num) == [k \in 1..num |-> ((k - 1) * stop) \div (num - 1)]

\* Uniform.prob times the width of the prior: 1 inside, 0 outside
prob(prior, val) == IF prior.minimum <= val /\ val <= prior.maximum THEN 1 ELSE 0

\* _setup_time_marginalization: self._times
setup_times(start_time, duration, sampling_frequency) ==
    LET grid_points == linspace(duration, (duration * sampling_frequency) \div 2 + 1)
    IN  [k \in 1..(Len(grid_points) - 1) |-> start_time + grid_points[k + 1]]

\* the entries of d_inner_h_array in the time branch of calculate_snrs: the
\* FFT of the frequency series without its last bin
fft_bins(duration, sampling_frequency) == ((duration * sampling_frequency) \div 2 + 1) - 1

SetupTimeMarginalization ==
    /\ \E start_time \in {0, 3}, duration \in {4, 4 + 2 * NTimes},
          sampling_frequency \in {1, 2} :
        tgrid' = [NoTimeGrid EXCEPT
                     !.op = "setup", !.start_time = start_time, !.duration = duration,
                     !.sampling_frequency = sampling_frequency,
                     !.delta_tc = 2 \div sampling_frequency,
                     !.times = setup_times(start_time, duration, sampling_frequency),
                     !.bins = fft_bins(duration, sampling_frequency)]
    /\ UNCHANGED <<gwVars, tableVars, roqVars, objVars, grid, mb>>

\* time_marginalized_likelihood, lines 720-724: the prior weights of the bins
time_prior_array(g, prior, time_jitter, jitter) ==
    LET times == IF jitter THEN [k \in DOMAIN g.times |-> g.times[k] + time_jitter]
                 ELSE g.times
    IN  [k \in DOMAIN times |-> prob(prior, times[k]) * g.delta_tc]

\* an evaluation: geocent_time is the parameter after the jitter was added
TimeMarginalizedLikelihood ==
    /\ tgrid.op # "none"
    /\ \E jitter \in BOOLEAN, lo \in 0..2, width \in {1, 3} :
        \E time_jitter \in (IF jitter THEN (-MaxJitter)..MaxJitter ELSE {0}) :
            LET prior == [minimum |-> tgrid.start_time + lo,
                          maximum |-> tgrid.start_time + lo + width]
            IN  tgrid' = [tgrid EXCEPT
                             !.op = "time_marginalized_likelihood",
                             !.geocent_time = tgrid.start_time + time_jitter,
                             !.time_jitter = time_jitter, !.prior = prior,
                             !.time_prior_array =
                                 time_prior_array(tgrid, prior, time_jitter, jitter),
                             !.sample_times = <<>>]
    /\ UNCHANGED <<gwVars, tableVars, roqVars, objVars, grid, mb>>

\* generate_time_sample_from_marginalized_likelihood, lines 544-549: the
\* times of the bins of its FFT, one step being 2 / sampling_frequency here
sample_times(g, geocent_time) ==
    [k \in 1..g.bins |->
        ((geocent_time - g.start_time + (k - 1) * g.delta_tc) % g.duration) + g.start_time]

TimeSampleTimes ==
    /\ tgrid.op = "time_marginalized_likelihood"
    /\ tgrid' = [tgrid EXCEPT !.op = "generate_time_sample",
                              !.sample_times = sample_times(tgrid, tgrid.geocent_time)]
    /\ UNCHANGED <<gwVars, tableVars, roqVars, objVars, grid, mb>>

NextTimeGrid ==
    \/ SetupTimeMarginalization
    \/ TimeMarginalizedLikelihood
    \/ TimeSampleTimes
(***************************************************************************)
(* Multi-banding (SpecBands): setup_multibanding of                        *)
(* MBGravitationalWaveTransient.  Durations are integers, the segment      *)
(* lasting SegmentDuration = 2^Halvings units.  Frequencies are integers   *)
(* in a unit in which the bisection tolerance 1e-2/duration is             *)
(* TolNum \div duration, so that a bisection takes a few halvings; a       *)
(* frequency times a duration is a number of cycles after division by      *)
(* CycleDen.  The variable mb holds the position in the setup (pc), the    *)
(* locals of the loops and the attributes the setup writes.                *)
(***************************************************************************)
MaxBandingFrequency == 12

Halvings == 6

SegmentDuration == 2^Halvings

TolNum == SegmentDuration \div 2

CycleDen == SegmentDuration \div 4

\* the scale of tau per reference chirp mass, and the units of dtau/df and of 1/sqrt
MergerScales == <<2000, 200>>

Units == [dtaudf |-> 15, df |-> 100]

Min(a, b) == IF a <= b THEN a ELSE b

RECURSIVE ICbrtBetween(_, _, _)
ICbrtBetween(x, lo, hi) ==
    IF lo >= hi THEN lo
    ELSE LET mid == (lo + hi + 1) \div 2
         IN  IF mid * mid * mid <= x THEN ICbrtBetween(x, mid, hi)
             ELSE ICbrtBetween(x, lo, mid - 1)

\* f^(8/3), rounded down: the cube root of f^8, which lies between f^2 and f^3
Pow83(f) == ICbrtBetween(f * f * f * f * f * f * f * f, f * f, Min(f * f * f, 1290))

\* _tau: 5/256 Mc (pi Mc f_22)^(-8/3), the constant in front being MergerScales[m]
tau(m, f) == MergerScales[m] \div Pow83(f)

\* -_dtaudf: 5/96 Mc (pi Mc f_22)^(-8/3) / f, that is 8/3 tau / f
minus_dtaudf(m, f) == (8 * Units.dtaudf * MergerScales[m]) \div (3 * Pow83(f) * f)

\* np.sqrt(-self._dtaudf(f))
sqrt_minus_dtaudf(m, f) == ISqrt(minus_dtaudf(m, f))

\* 1. / np.sqrt(-self._dtaudf(f))
inverse_sqrt_minus_dtaudf(m, f) ==
    ISqrt((Units.df * 3 * Pow83(f) * f) \div (8 * Units.dtaudf * MergerScales[m]))

\* _tau and _dtaudf evaluated once per reference chirp mass and frequency
merger == [m \in 1..Len(MergerScales), f \in 1..MaxBandingFrequency |->
              [tau |-> tau(m, f),
               sqrt_minus_dtaudf |-> sqrt_minus_dtaudf(m, f),
               inverse_sqrt_minus_dtaudf |-> inverse_sqrt_minus_dtaudf(m, f)]]

is_above_fnext(a, duration, fnow, f) ==
    LET at_f == merger[a.reference_chirp_mass, f]
        cond1 == duration - a.time_offset - at_f.tau
                     - a.accuracy_factor * at_f.sqrt_minus_dtaudf > 0
        cond2 == f - at_f.inverse_sqrt_minus_dtaudf - fnow > 0
    IN  cond1 /\ cond2

\* 1e-2 / duration
tolerance(duration) == TolNum \div duration

midpoint_at_fmin(fmin, fmax) == fmin

\* f = (fmin + fmax) / 2.
midpoint(fmin, fmax) == (fmin + fmax) \div 2

duration_allowed_by_offset(a, dnext) == dnext > a.time_offset

\* dnext > max(self.time_offset, self.minimum_banding_duration)
duration_allowed(a, dnext) == dnext > Max(a.time_offset, a.minimum_banding_duration)

\* fnext < min(self.maximum_frequency, self.maximum_banding_frequency)
frequency_allowed(a, fnext) ==
    fnext < Min(a.maximum_frequency, a.maximum_banding_frequency)

NoneFound == [kind |-> "none", f |-> 0, df |-> 0, duration |-> 0, fnow |-> 0]

MBArgs ==
    [minimum_frequency : {1, 3},
     maximum_frequency : {MaxBandingFrequency - 4, MaxBandingFrequency + 4},
     maximum_banding_frequency : {MaxBandingFrequency - 2, MaxBandingFrequency},
     time_offset : {0 - (TolNum + 8), 0, TolNum + 8},
     minimum_banding_duration : {0, CycleDen + 4},
     accuracy_factor : {0, 1},
     delta_f_end : {1},
     reference_chirp_mass : 1..Len(MergerScales)]

NoBands ==
    [pc |-> "idle", args |-> CHOOSE a \in MBArgs : TRUE,
     durations |-> <<>>, fb_dfb |-> <<>>, dnext |-> 0,
     fmin |-> 0, fmax |-> 0, f |-> 0, f_bound |-> FALSE, found |-> NoneFound,
     Nbs |-> <<>>, Mbs |-> <<>>, Ks_Ke |-> <<>>,
     banded_frequency_points |-> <<>>, start_end_idxs |-> <<>>,
     frequencies |-> <<>>, unique_to_original_frequencies |-> <<>>,
     linear_coeffs |-> 0, quadratic_coeffs |-> 0]

\* _setup_frequency_bands up to its loop
SetupFrequencyBands ==
    /\ mb.pc = "idle"
    /\ \E a \in MBArgs :
           mb' = [NoBands EXCEPT !.pc = "while", !.args = a,
                                 !.durations = <<SegmentDuration>>,
                                 !.fb_dfb = << <<a.minimum_frequency, 0>> >>,
                                 !.dnext = SegmentDuration \div 2]
    /\ UNCHANGED <<gwVars, tableVars, roqVars, objVars, grid, tgrid>>

\* the loop test, and _find_starting_frequency up to its bisection
BandsWhile ==
    /\ mb.pc = "while"
    /\ LET a == mb.args
           fnow == mb.fb_dfb[Len(mb.fb_dfb)][1]
       IN  IF ~duration_allowed(a, mb.dnext)
           THEN mb' = [mb EXCEPT !.pc = "end"]
           ELSE IF ~is_above_fnext(a, mb.dnext, fnow, a.maximum_banding_frequency)
           THEN mb' = [mb EXCEPT !.pc = "end",
                                 !.found = [NoneFound EXCEPT !.duration = mb.dnext,
                                                             !.fnow = fnow]]
           ELSE mb' = [mb EXCEPT !.pc = "bisect", !.fmin = fnow,
                                 !.fmax = a.maximum_banding_frequency,
                                 !.f = 0, !.f_bound = FALSE]
    /\ UNCHANGED <<gwVars, tableVars, roqVars, objVars, grid, tgrid>>

\* one pass of the bisection loop
Bisect ==
    /\ mb.pc = "bisect"
    /\ mb.fmax - mb.fmin > tolerance(mb.dnext)
    /\ LET fnow == mb.fb_dfb[Len(mb.fb_dfb)][1]
           f == midpoint(mb.fmin, mb.fmax)
       IN  IF is_above_fnext(mb.args, mb.dnext, fnow, f)
           THEN mb' = [mb EXCEPT !.f = f, !.f_bound = TRUE, !.fmax = f]
           ELSE mb' = [mb EXCEPT !.f = f, !.f_bound = TRUE, !.fmin = f]
    /\ UNCHANGED <<gwVars, tableVars, roqVars, objVars, grid, tgrid>>

\* the return of _find_starting_frequency and the rest of the loop body
BisectReturn ==
    /\ mb.pc = "bisect"
    /\ ~(mb.fmax - mb.fmin > tolerance(mb.dnext))
    /\ LET a == mb.args
           fnow == mb.fb_dfb[Len(mb.fb_dfb)][1]
           fnext == mb.f
           dfnext == merger[a.reference_chirp_mass, mb.f].inverse_sqrt_minus_dtaudf
           found == [kind |-> "pair", f |-> fnext, df |-> dfnext,
                     duration |-> mb.dnext, fnow |-> fnow]
       IN  IF ~mb.f_bound
           THEN mb' = [mb EXCEPT !.pc = "raised",
                                 !.found = [NoneFound EXCEPT !.kind = "unbound",
                                                             !.duration = mb.dnext,
                                                             !.fnow = fnow]]
           ELSE IF frequency_allowed(a, fnext)
           THEN mb' = [mb EXCEPT !.pc = "while", !.found = found,
                                 !.durations = Append(@, mb.dnext),
                                 !.fb_dfb = Append(@, <<fnext, dfnext>>),
                                 !.dnext = @ \div 2]
           ELSE mb' = [mb EXCEPT !.pc = "end", !.found = found]
    /\ UNCHANGED <<gwVars, tableVars, roqVars, objVars, grid, tgrid>>

\* the last entry of fb_dfb
SetupFrequencyBandsEnd ==
    /\ mb.pc = "end"
    /\ mb' = [mb EXCEPT !.pc = "integers",
                        !.fb_dfb = Append(@, <<mb.args.maximum_frequency + mb.args.delta_f_end,
                                               mb.args.delta_f_end>>)]
    /\ UNCHANGED <<gwVars, tableVars, roqVars, objVars, grid, tgrid>>

RECURSIVE PowerOfTwoFrom(_, _, _)
PowerOfTwoFrom(num, den, p) == IF p * den >= num THEN p ELSE PowerOfTwoFrom(num, den, 2 * p)

\* the smallest power of two that is at least num / den
round_up_to_power_of_two(num, den) == PowerOfTwoFrom(num, den, 1)

Nb_of(g, b) ==
    LET fnext == g.fb_dfb[b + 1][1]
    IN  Max(round_up_to_power_of_two(2 * (fnext * SegmentDuration + CycleDen), CycleDen),
            2^(b - 1))

Ks_Ke_of(g, b) ==
    LET dnow == g.durations[b]
        fnow == g.fb_dfb[b][1]
        dfnow == g.fb_dfb[b][2]
        fnext == g.fb_dfb[b + 1][1]
    IN  <<CeilOfQuotient((fnow - dfnow) * dnow, CycleDen), (fnext * dnow) \div CycleDen>>

SetupIntegers ==
    /\ mb.pc = "integers"
    /\ mb' = [mb EXCEPT !.pc = "points",
                        !.Nbs = [b \in 1..Len(mb.durations) |-> Nb_of(mb, b)],
                        !.Mbs = [b \in 1..Len(mb.durations) |-> Nb_of(mb, b) \div 2^(b - 1)],
                        !.Ks_Ke = [b \in 1..Len(mb.durations) |-> Ks_Ke_of(mb, b)]]
    /\ UNCHANGED <<gwVars, tableVars, roqVars, objVars, grid, tgrid>>

\* np.arange(Ks, Ke + 1) / d, in units of 1 / SegmentDuration
band_points(Ks, Ke, d) ==
    [j \in 1..Max(Ke - Ks + 1, 0) |-> (Ks + j - 1) * (SegmentDuration \div d)]

end_idx_after(start_idx, Ks, Ke) == start_idx + Ke - Ks + 1

\* end_idx = start_idx + Ke - Ks
end_idx_of(start_idx, Ks, Ke) == start_idx + Ke - Ks

RECURSIVE banded_points_upto(_, _)
banded_points_upto(g, b) ==
    IF b = 0 THEN <<>>
    ELSE banded_points_upto(g, b - 1)
             \o band_points(g.Ks_Ke[b][1], g.Ks_Ke[b][2], g.durations[b])

RECURSIVE start_end_idxs_upto(_, _)
start_end_idxs_upto(g, b) ==
    IF b = 0 THEN <<>>
    ELSE LET before == start_end_idxs_upto(g, b - 1)
             start_idx == IF b = 1 THEN 0 ELSE before[b - 1][2] + 1
         IN  Append(before, <<start_idx, end_idx_of(start_idx, g.Ks_Ke[b][1], g.Ks_Ke[b][2])>>)

SeqRange(s) == {s[i] : i \in 1..Len(s)}

\* the elements of a set of numbers in increasing order
SortedSeq(S) ==
    [i \in 1..Cardinality(S) |-> CHOOSE x \in S : Cardinality({y \in S : y < x}) = i - 1]

\* np.unique(ar, return_inverse=True): the sorted distinct values, and for every
\* element of ar the (0-based) index of its value among them
unique(ar) ==
    LET u == SortedSeq(SeqRange(ar))
    IN  [values |-> u,
         inverse |-> [i \in 1..Len(ar) |-> (CHOOSE j \in 1..Len(u) : u[j] = ar[i]) - 1]]

SetupWaveformFrequencyPoints ==
    /\ mb.pc = "points"
    /\ LET n == Len(mb.fb_dfb) - 1
           points == banded_points_upto(mb, n)
           u == unique(points)
       IN  mb' = [mb EXCEPT !.pc = "coefficients",
                            !.banded_frequency_points = points,
                            !.start_end_idxs = start_end_idxs_upto(mb, n),
                            !.frequencies = u.values,
                            !.unique_to_original_frequencies = u.inverse]
    /\ UNCHANGED <<gwVars, tableVars, roqVars, objVars, grid, tgrid>>

\* len(a[lo:hi]) for 0 <= lo, hi and len(a) = n
slice_len(n, lo, hi) == Max(0, Min(hi, n) - Min(lo, n))

\* the length of a product of two arrays, -1 where numpy cannot broadcast them
broadcast_len(l1, l2) ==
    IF l1 = l2 THEN l1 ELSE IF l1 = 1 THEN l2 ELSE IF l2 = 1 THEN l1 ELSE -1

\* the length of what band b appends to linear_coeffs
linear_coeffs_of(g, b) ==
    LET windows == slice_len(Len(g.banded_frequency_points),
                             g.start_end_idxs[b][1], g.start_end_idxs[b][2] + 1)
        fddata_in_ith_band == slice_len(g.Mbs[b] \div 2 + 1, g.Ks_Ke[b][1], g.Ks_Ke[b][2] + 1)
    IN  broadcast_len(windows, fddata_in_ith_band)

\* the length of what band b appends to quadratic_coeffs (linear interpolation)
quadratic_coeffs_of(g, b) ==
    slice_len(Len(g.banded_frequency_points),
              g.start_end_idxs[b][1], g.start_end_idxs[b][2] + 1)

RECURSIVE SumTo(_, _, _)
SumTo(Op(_, _), g, b) == IF b = 0 THEN 0 ELSE SumTo(Op, g, b - 1) + Op(g, b)

\* _setup_linear_coefficients and _setup_quadratic_coefficients_linear_interp,
\* as far as the lengths of the arrays they build
SetupCoefficients ==
    /\ mb.pc = "coefficients"
    /\ LET n == Len(mb.fb_dfb) - 1
       IN  IF \E b \in 1..n : linear_coeffs_of(mb, b) < 0
           THEN mb' = [mb EXCEPT !.pc = "raised"]
           ELSE mb' = [mb EXCEPT !.pc = "done",
                                 !.linear_coeffs = SumTo(linear_coeffs_of, mb, n),
                                 !.quadratic_coeffs = SumTo(quadratic_coeffs_of, mb, n)]
    /\ UNCHANGED <<gwVars, tableVars, roqVars, objVars, grid, tgrid>>

\* the passes of the loop of _setup_frequency_bands and of the bisection in it
BandsLoop ==
    \/ BandsWhile
    \/ Bisect
    \/ BisectReturn

NextBands ==
    \/ SetupFrequencyBands
    \/ BandsWhile
    \/ Bisect
    \/ BisectReturn
    \/ SetupFrequencyBandsEnd
    \/ SetupIntegers
    \/ SetupWaveformFrequencyPoints
    \/ SetupCoefficients


InitInit ==
    /\ priors = NoPriors
    /\ self_priors = NoPriors
    /\ waveform_generator = [attribute \in WfgAttributes |-> PyNone]
    /\ weights = NoWeights
    /\ call = [op |-> "none"]
    /\ sampling = NoSampling
    /\ threads = [t \in Threads |-> IdleThread]
    /\ ifo_data = NoData
    /\ signals = NoSignals
    /\ grid = NoGrid
    /\ tgrid = NoTimeGrid
    /\ mb = NoBands

NextInit ==
    \/ GWTConstructWithPriors
    \/ ROQConstructFromBasis
    \/ ROQConstructFromWeights
    \/ ROQEvaluateWithWeights

(***************************************************************************)
(* The likelihood object's specification.                                  *)
(***************************************************************************)
Init ==
    /\ obj = "none"
    /\ time_marginalization = FALSE
    /\ distance_marginalization = FALSE
    /\ phase_marginalization = FALSE
    /\ calibration_marginalization = FALSE
    /\ jitter_time = FALSE
    /\ time_reference = "geocent"
    /\ number_of_response_curves = 1
    /\ parameters = NoParameters
    /\ ret = NoRet
    /\ TableInit
    /\ ROQInit
    /\ InitInit

Next ==
    \/ Construct
    \/ SetParameters
    \/ LogLikelihoodRatio
    \/ GeneratePosteriorSample

Spec == Init /\ [][Next]_vars

SpecTable == Init /\ [][NextTable]_vars

SpecROQ == Init /\ [][NextROQ]_vars

SpecInit == Init /\ [][NextInit]_vars

SpecSample == Init /\ [][NextSample]_vars

SpecConc == Init /\ [][NextConc]_vars

SpecNoise == Init /\ [][NextNoise]_vars

SpecSignal == Init /\ [][NextSignal]_vars

SpecGrid == Init /\ [][NextGrid]_vars

SpecTimeGrid == Init /\ [][NextTimeGrid]_vars

SpecTimeSample == Init /\ [][NextTimeSample]_vars

SpecBands == Init /\ [][NextBands]_vars

\* the loops of a setup that has started run on: nothing else runs in the
\* constructor's thread
SpecBandsLive == Init /\ [][NextBands]_vars /\ WF_vars(BandsLoop)

(***************************************************************************)
(* Properties of the likelihood object (checked under Spec).               *)
(***************************************************************************)

\* C1 (as amended): when the waveform generator returns None,
\* log_likelihood_ratio raises nothing and returns np.nan_to_num(-inf), the
\* most negative finite float, under every combination of the flags.
C1_WaveformNoneReturnsFiniteMinimum ==
    (ret.op = "llr" /\ ret.wfNone) =>
        /\ ret.kind = "value"
        /\ ret.val = -REALMAX
        /\ ret.val > NegInf

\* C1 as stated: the value returned for a None waveform is -inf.
C1_WaveformNoneReturnsNegInf ==
    (ret.op = "llr" /\ ret.wfNone) => (ret.kind = "value" /\ ret.val = NegInf)

C1_Witness ==
    /\ ret.op = "llr" /\ ret.wfNone /\ ret.kind = "value"
    /\ time_marginalization /\ calibration_marginalization
    /\ distance_marginalization /\ phase_marginalization

C3_TripleFailsFast ==
    (obj = "ready" /\ time_marginalization /\ distance_marginalization
        /\ calibration_marginalization /\ ret.op = "llr" /\ ~ret.wfNone)
        => ret.kind = "raise"

\* a failure caused by the combination of flags: the refusal of the
\* reconstruction, or array shapes the combination makes incompatible
FlagFailure == ret.kind = "raise" /\ ret.err \in {"AttributeError", "ValueError", "IndexError"}

C8_JitterRestored ==
    (ret.op = "llr" /\ ret.kind = "value" /\ time_marginalization /\ jitter_time) =>
        /\ parameters.geocent_time = ret.gt_entry
        /\ ~ret.wfNone => ret.gt_snr = ret.gt_entry + parameters.time_jitter
        /\ ret.wfNone => ret.gt_snr = ret.gt_entry

C8_Witness ==
    /\ ret.op = "llr" /\ ret.kind = "value" /\ ~ret.wfNone
    /\ time_marginalization /\ jitter_time /\ ~calibration_marginalization
    /\ parameters.time_jitter # 0
    /\ ret.gt_snr # ret.gt_entry
    /\ parameters.geocent_time = ret.gt_entry

(***************************************************************************)
(* The cache of the distance lookup table (SpecTable).                     *)
(***************************************************************************)
\* the elements the current configuration holds under a key
CurrentElements(key) ==
    IF key = "distance_array" THEN distance_array
    ELSE IF key = "prior_array" THEN distance_prior_array
    ELSE IF key = "reference_distance" THEN <<ref_dist>>
    ELSE <<phase_marginalization>>

ConfigKeys == {"distance_array", "prior_array", "reference_distance", "phase_marginalization"}

\* a key is in the examined content and holds the current configuration's elements
KeyAgrees(key) ==
    /\ key \in DOMAIN tret.examined.data
    /\ tret.examined.data[key].v = CurrentElements(key)

FromFile == tret.op = "setup" /\ tret.arg \in {"none", "str"}

\* C5: a table read from a cache file is in use only if each of the keys
\* distance_array, prior_array, reference_distance and phase_marginalization
\* is in the file and equal to the current configuration; if a key is
\* missing or differs, the setup raises nothing and the table in use is the
\* one built from the current configuration, not the file's.
C5_FileUsedOnlyIfItMatches ==
    FromFile =>
        /\ tret.source = "file" => \A key \in ConfigKeys : KeyAgrees(key)
        /\ (tret.examined.kind = "npz" /\ \E key \in ConfigKeys : ~KeyAgrees(key)) =>
               /\ tret.kind = "value"
               /\ tret.source = "built"
               /\ tret.builds >= 1
               /\ dist_margd_loglikelihood_array = TableOf(CurrentConfig)

\* a complete cache file of another configuration was found and the table rebuilt
C5_Witness ==
    /\ FromFile
    /\ tret.arg = "str"
    /\ tret.examined.kind = "npz"
    /\ DOMAIN tret.examined.data = TableKeys
    /\ ~KeyAgrees("reference_distance")
    /\ tret.source = "built"
    /\ dist_margd_loglikelihood_array = TableOf(CurrentConfig)

\* C6: a dict given by the caller is validated as a file is, so that after
\* _setup_distance_marginalization with a dict the setup has raised nothing
\* and the table in use is the one of the current configuration.
C6_DictValidatedLikeFile ==
    (tret.op = "setup" /\ tret.arg = "dict") =>
        /\ tret.kind = "value"
        /\ dist_margd_loglikelihood_array = TableOf(CurrentConfig)

\* C7: after a setup that built the table and wrote it, a setup with the
\* same lookup_table argument under the same configuration finds the file,
\* passes validation, builds nothing and has the same table in use.
C7_RoundTrip ==
    (FromFile /\ tret.kind = "value" /\ tret.source = "built") =>
        LET again == setup_distance_marginalization(
                         [kind |-> tret.arg, name |-> tret.name, dict |-> Absent],
                         CurrentConfig)
        IN  /\ again.kind = "value"
            /\ again.source = "file"
            /\ again.builds = 0
            /\ again.table = dist_margd_loglikelihood_array
            /\ again.files = files

\* a setup given a name without the extension built the table and wrote it
C7_Witness ==
    /\ FromFile
    /\ tret.kind = "value"
    /\ tret.source = "built"
    /\ tret.name = Name("a", "")
    /\ files[Name("a", ".npz")] = Npz(CacheContent(CurrentConfig, dist_margd_loglikelihood_array))

(***************************************************************************)
(* The ROQ likelihood (SpecROQ).                                           *)
(***************************************************************************)
Evaluated == rret.op = "llr" /\ ~rret.wfNone

\* C9 (as amended): in_bounds is False exactly when one of the five indices
\* closest-2 .. closest+2 is outside [0, number of samples), which is when
\* the detector time is below the third sample or at or past the last but
\* one; a time between the last but two and the last but one is in bounds.
\* Out of bounds, calculate_snrs interpolates nothing and returns, without
\* raising, d_inner_h as the finite stand-in of -inf and optimal_snr_squared 0.
C9_InBoundsExactly ==
    Evaluated =>
        /\ rret.kind = "value"
        /\ \A i \in Ifos :
            LET r == rret.snrs[i]
            IN  /\ r.in_bounds <=>
                       \A k \in (r.closest - 2)..(r.closest + 2) : k >= 0 /\ k < NSamples
                /\ ~r.in_bounds <=>
                       \/ r.ifo_time < time_samples[3]
                       \/ r.ifo_time >= time_samples[NSamples - 1]
                /\ ~r.in_bounds =>
                       /\ ~r.interpolated
                       /\ r.d_inner_h = -REALMAX
                       /\ r.optimal_snr_squared = 0
                /\ r.in_bounds => r.interpolated

\* C9 as stated: in_bounds is False exactly when the detector time is less
\* than two steps of the time samples from the first or from the last
\* sample, or outside them.
C9_WithinTwoGridPointsOfEitherEdge ==
    Evaluated =>
        \A i \in Ifos :
            ~rret.snrs[i].in_bounds <=>
                \/ rret.snrs[i].ifo_time < time_samples[1] + 2 * Sub
                \/ rret.snrs[i].ifo_time > time_samples[NSamples] - 2 * Sub

\* one detector's time is less than two steps below the last sample and in
\* bounds, the other's is out of bounds
C9_Witness ==
    /\ Evaluated
    /\ \E i \in Ifos, j \in Ifos :
        /\ rret.snrs[i].in_bounds
        /\ rret.snrs[i].ifo_time > time_samples[NSamples] - 2 * Sub
        /\ ~rret.snrs[j].in_bounds
        /\ rret.snrs[j].d_inner_h = -REALMAX

\* C10: when the time is out of the window for at least one detector,
\* log_likelihood_ratio raises nothing and returns -inf or the most negative
\* float, whether phase or distance marginalization is set or not.
C10_OutOfWindowIsRejected ==
    (Evaluated /\ \E i \in Ifos : ~rret.snrs[i].in_bounds) =>
        /\ rret.kind = "value"
        /\ rret.val <= -REALMAX

(***************************************************************************)
(* Construction (SpecInit).                                                *)
(***************************************************************************)
\* the scaled bounds of the basis
ScaledBounds(a) ==
    [flow |-> a.roq_params.v.flow * a.roq_scale_factor,
     fhigh |-> a.roq_params.v.fhigh * a.roq_scale_factor,
     seglen |-> a.roq_params.v.seglen \div a.roq_scale_factor,
     chirpmassmin |-> a.roq_params.v.chirpmassmin \div a.roq_scale_factor,
     chirpmassmax |-> a.roq_params.v.chirpmassmax \div a.roq_scale_factor,
     compmin |-> a.roq_params.v.compmin \div a.roq_scale_factor]

\* detector i's band or the data duration is outside the scaled basis
DataOutside(a, i) ==
    \/ a.bands[i].maximum_frequency > ScaledBounds(a).fhigh
    \/ a.bands[i].minimum_frequency < ScaledBounds(a).flow
    \/ a.base.interferometers.duration # ScaledBounds(a).seglen

\* one of the prior's three mass bounds is outside the scaled basis
MassOutside(a) ==
    LET p == a.base.priors
    IN  \/ p.minimum_chirp_mass # PyNone
           /\ p.minimum_chirp_mass[1] < ScaledBounds(a).chirpmassmin
        \/ p.maximum_chirp_mass # PyNone
           /\ p.maximum_chirp_mass[1] > ScaledBounds(a).chirpmassmax
        \/ p.minimum_component_mass # PyNone
           /\ p.minimum_component_mass[1] < ScaledBounds(a).compmin

\* a construction from the basis matrices that reached the detector loop
\* with roq_params given and roq_params_check True
CheckedConstruction ==
    /\ call.op = "roq_init"
    /\ call.args.weights.type = "None"
    /\ call.args.roq_params.type \in {"ndarray", "str"}
    /\ call.args.roq_params_check
    /\ call.stage = "weights"
    /\ call.err \notin {"TypeError", "KeyError"}

\* the first detector the check fails for, 0 when there is none
FirstFailing(a, massChecked) ==
    LET failing == {i \in Ifos : DataOutside(a, i) \/ (massChecked /\ MassOutside(a))}
    IN  IF failing = {} THEN 0 ELSE CHOOSE i \in failing : \A j \in failing : i <= j

WeightsMatch(a, w) ==
    /\ "time_samples" \in DOMAIN w
    /\ w["time_samples"] = set_weights_time_samples(a, a.base.priors)
    /\ \A i \in Ifos :
        /\ LinearKey(i) \in DOMAIN w
        /\ QuadraticKey(i) \in DOMAIN w
        /\ Len(w[LinearKey(i)]) = Len(w["time_samples"])

\* the configuration is inside the validity range of the basis
InRange(a) ==
    a.roq_params.type # "None" =>
        /\ \A i \in Ifos : ~DataOutside(a, i)
        /\ ~MassOutside(a)

SuppliedWeights == call.op \in {"roq_init", "roq_llr"} /\ call.args.weights.type \in {"dict", "str"}

\* C12: weights supplied as a dict or as a file name are in use, in a
\* constructed likelihood and in its evaluations, only if they match the
\* current configuration (time samples and both arrays of every detector)
\* and the configuration is inside the validity range of the basis.
C12_SuppliedWeightsVerified ==
    (SuppliedWeights /\ obj = "ready") =>
        /\ WeightsMatch(call.args, weights)
        /\ InRange(call.args)

(***************************************************************************)
(* Posterior samples (SpecSample).                                         *)
(***************************************************************************)
DrawOrder == <<"recalib_index", "geocent_time", "luminosity_distance", "phase">>

Marginalized(key) ==
    IF key = "recalib_index" THEN calibration_marginalization
    ELSE IF key = "geocent_time" THEN time_marginalization
    ELSE IF key = "luminosity_distance" THEN distance_marginalization
    ELSE phase_marginalization

\* C13: a sample is drawn for the marginalized parameters in the order
\* calibration index, time, distance, phase; every draw is computed with the
\* values drawn before it in parameters, and the phase draw with the signal
\* at the drawn distance.
C13_DrawsInOrderWithDrawnValues ==
    (sampling.op = "gen" /\ sampling.kind = "value") =>
        LET log == sampling.log
        IN  /\ \A n \in 1..Len(log), k \in 1..Len(log) :
                   n < k => \E i \in 1..4, j \in 1..4 :
                                i < j /\ DrawOrder[i] = log[n].key /\ DrawOrder[j] = log[k].key
            /\ \A i \in 1..4 :
                   Marginalized(DrawOrder[i]) <=> \E n \in 1..Len(log) : log[n].key = DrawOrder[i]
            /\ \A n \in 1..Len(log), k \in 1..Len(log) :
                   n < k =>
                       IF log[n].key = "recalib_index"
                       THEN log[k].seen.recalib_index = Some(log[n].value)
                       ELSE log[k].seen[log[n].key] = log[n].value
            /\ \A n \in 1..Len(log), k \in 1..Len(log) :
                   (log[n].key = "luminosity_distance" /\ log[k].key = "phase") =>
                       log[k].signal = log[n].value

Constructed == call.op = "gwt_init" /\ obj = "ready"

\* the calibration prior keys of all detectors
AllRecalibKeys == UNION {RecalibKeys[Interferometers[i]] : i \in Ifos}

\* C14: after construction with calibration marginalization every
\* calibration prior is a delta function at 0 in the caller's priors dict as
\* well as in the likelihood's own priors.
C14_CalibrationPriorsFixedForCaller ==
    (Constructed /\ calibration_marginalization) =>
        \A key \in AllRecalibKeys :
            /\ Has(self_priors, key) => self_priors.d[key] = DeltaFunction(0)
            /\ Has(priors, key) => priors.d[key] = DeltaFunction(0)
            /\ Has(call.args.priors, key) => (Has(priors, key) /\ Has(self_priors, key))

\* C15: an attribute of the waveform generator that is None is set from the
\* interferometers; one that is set and differs makes the constructor raise.
C15_DifferingGeneratorRaises ==
    call.op = "gwt_init" =>
        LET given == call.args.waveform_generator
            ifos == call.args.interferometers
        IN  /\ obj = "ready" =>
                   \A attribute \in WfgAttributes :
                       given[attribute] = PyNone =>
                           waveform_generator[attribute] = Some(ifos[attribute])
            /\ (\E attribute \in WfgAttributes :
                    given[attribute] # PyNone /\ given[attribute] # Some(ifos[attribute]))
                   => call.kind = "raise"

\* C16: with distance marginalization, after construction the caller's
\* luminosity_distance prior is fixed at the minimum of the distance prior
\* marginalized over, and redshift and comoving_distance are gone from the
\* caller's dict.
C16_DistanceFixedAtMinimum ==
    (Constructed /\ distance_marginalization) =>
        /\ Has(priors, "luminosity_distance")
        /\ priors.d["luminosity_distance"].type \in {"float", "DeltaFunction"}
        /\ priors.d["luminosity_distance"].minimum =
               self_priors.d["luminosity_distance"].minimum
        /\ ~Has(priors, "redshift")
        /\ ~Has(priors, "comoving_distance")

\* a request for time marginalization with a time reference that is not the
\* geocenter
NonGeocenterRequest ==
    /\ call.op = "gwt_init"
    /\ call.args.time_reference # "geocent"
    /\ call.args.time_marginalization

\* C17 (as amended): such a request, made with priors, is dropped: the
\* constructor raises nothing on its account, and the likelihood it
\* constructs has time_marginalization and jitter_time False, no time grid,
\* no time_jitter prior and the caller's geocent_time prior as it was; made
\* without priors it raises ValueError.  A constructed likelihood has
\* jitter_time only with time_marginalization.
C17_NonGeocenterRequestDropped ==
    /\ NonGeocenterRequest =>
           /\ call.args.priors.kind = "None" <=>
                  (call.kind = "raise" /\ call.err = "ValueError" /\ priors = NoPriors)
           /\ (call.args.priors.kind # "None"
               /\ ~call.args.phase_marginalization
               /\ ~call.args.distance_marginalization) => obj = "ready"
           /\ ~call.times
           /\ ~Has(priors, "time_jitter")
           /\ Has(priors, "geocent_time") = Has(call.args.priors, "geocent_time")
           /\ Has(priors, "geocent_time") =>
                  priors.d["geocent_time"] = call.args.priors.d["geocent_time"]
           /\ Has(self_priors, "geocent_time") =>
                  self_priors.d["geocent_time"] = call.args.priors.d["geocent_time"]
           /\ obj = "ready" => (~time_marginalization /\ ~jitter_time)
    /\ Constructed => (jitter_time => time_marginalization)

\* C17 as stated: such a request never makes the constructor raise.
C17_NonGeocenterRequestNeverRaises ==
    (NonGeocenterRequest
     /\ ~call.args.phase_marginalization /\ ~call.args.distance_marginalization
     /\ ~call.args.calibration_marginalization) =>
        /\ call.kind = "value"
        /\ ~time_marginalization
        /\ ~jitter_time

\* a request with priors and jitter_time that was dropped
C17_Witness ==
    /\ NonGeocenterRequest
    /\ call.args.jitter_time
    /\ call.args.priors.kind = "PriorDict"
    /\ Has(call.args.priors, "geocent_time")
    /\ obj = "ready"
    /\ ~time_marginalization
    /\ ~jitter_time
    /\ priors = call.args.priors

(***************************************************************************)
(* Interleaved evaluations (SpecConc).                                     *)
(***************************************************************************)
\* C18: an evaluation interleaved with another on the same object computes
\* with the time it computes with when run alone, so it returns the same
\* value.
C18_InterleavedAsAlone ==
    \A t \in Threads :
        threads[t].pc \in {"reduce", "done"} => threads[t].used = threads[t].alone

(***************************************************************************)
(* The noise likelihood (SpecNoise).                                       *)
(***************************************************************************)
\* the sum over the masked bins of detector i of |strain|^2 / PSD
MaskedPower(i) ==
    LET f[k \in 0..Len(ifo_data.strain[i])] ==
            IF k = 0 THEN 0
            ELSE f[k - 1] + (IF ifo_data.mask[i][k]
                             THEN (ifo_data.strain[i][k] * ifo_data.strain[i][k])
                                      \div ifo_data.psd[i][k]
                             ELSE 0)
    IN  f[Len(ifo_data.strain[i])]

\* the sum of MaskedPower over the first n detectors
DetectorsPower(n) ==
    LET g[i \in 0..n] == IF i = 0 THEN 0 ELSE g[i - 1] + MaskedPower(i)
    IN  g[n]

\* C19: noise_log_likelihood returns the sum over the detectors of
\* -1/2 * 4/T * the sum over the masked bins of |strain|^2 / PSD, whatever
\* the flags, the parameters and the calls before it, and it changes nothing
\* of the object.
C19_NoiseLogLikelihood ==
    [][ret'.op = "noise" =>
           /\ ret'.kind = "value"
           /\ 2 * ifo_data.duration * ret'.val =
                  -4 * DetectorsPower(Len(ifo_data.interferometers))
           /\ UNCHANGED <<obj, time_marginalization, distance_marginalization,
                          phase_marginalization, calibration_marginalization,
                          jitter_time, time_reference, number_of_response_curves,
                          parameters, notGw>>]_vars

\* a call after an evaluation changed the parameters, on data with a masked
\* bin that holds power
C19_Witness ==
    /\ ret.op = "noise"
    /\ ret.val < 0
    /\ ~ifo_data.mask[1][1]
    /\ ifo_data.strain[1][1] # 0
    /\ time_marginalization
    /\ phase_marginalization
    /\ parameters.geocent_time # 0

(***************************************************************************)
(* The zero signal (SpecSignal).                                           *)
(***************************************************************************)
NoMarginalization ==
    ~(time_marginalization \/ distance_marginalization
      \/ phase_marginalization \/ calibration_marginalization)

\* the last call evaluated a detector response that is zero in every bin of
\* every detector
ZeroResponse ==
    /\ ret.op = "llr"
    /\ \A i \in DOMAIN signals.signal : signals.signal[i] = ZeroSignal

\* C20: with no marginalization and a detector response that is zero at
\* every frequency, each detector's d_inner_h and optimal_snr_squared are 0
\* and log_likelihood_ratio returns 0, for one detector and for several; the
\* matched filter SNR 0/0 is nan and the call does not raise.
C20_ZeroSignalGivesZero ==
    (NoMarginalization /\ ZeroResponse) =>
        /\ \A i \in DOMAIN signals.per :
               /\ signals.per[i].d_inner_h = 0
               /\ signals.per[i].optimal_snr_squared = 0
               /\ signals.per[i].complex_matched_filter_snr = NaN
        /\ signals.complex_matched_filter_snr = NaN
        /\ ret.kind = "value"
        /\ ret.val = 0

\* a zero response on two detectors whose unmasked strain is not zero
C20_Witness ==
    /\ NoMarginalization
    /\ ZeroResponse
    /\ Len(signals.signal) = 2
    /\ ifo_data.strain[1][2] # 0
    /\ ifo_data.mask[1][2]
    /\ ret.kind = "value"

(***************************************************************************)
(* The ROQ time samples (SpecGrid).                                        *)
(***************************************************************************)
\* the last lookup was at time sample k (counted from 0) with two samples on
\* each side
OnGrid(k) ==
    /\ grid.op = "calculate_snrs"
    /\ k - 2 >= 0
    /\ k + 2 < Len(grid.time_samples)
    /\ grid.ifo_time = grid.time_samples[k + 1]

\* C21: an arrival time equal to time sample k, with k - 2 >= 0 and k + 2
\* below the number of samples, selects the indices k - 2 .. k + 2, is
\* interpolated with a = 1 and b = 0, and gives the inner product at sample k.
C21_OnGridIsGridValue ==
    \A k \in 0..(Len(grid.time_samples) - 1) :
        OnGrid(k) =>
            /\ grid.in_bounds
            /\ grid.indices = [ii \in 1..5 |-> k + ii - 3]
            /\ grid.five_times[4] - grid.ifo_time = grid.five_times[2] - grid.five_times[1]
            /\ grid.d_inner_h = d_inner_h_tc(grid.pattern, k)

\* an arrival on a time sample where the inner products differ from one
\* sample to the next and the interpolation's curvature terms are not zero
C21_Witness ==
    \E k \in 0..(Len(grid.time_samples) - 1) :
        /\ OnGrid(k)
        /\ grid.values[3] # grid.values[4]
        /\ grid.values[3] - 2 * grid.values[4] + grid.values[5] # 0
        /\ grid.d_inner_h = grid.values[3]

(***************************************************************************)
(* The lookup table is built once (SpecTable).                             *)
(***************************************************************************)
\* C22: one run of the distance marginalization setup builds the lookup
\* table, and writes the cache file, at most once, whatever the cache file
\* holds and whatever the caller supplies.
C22_TableBuiltAtMostOnce ==
    tret.op = "setup" => tret.builds <= 1
BandsBuilt == mb.pc \in {"integers", "points", "coefficients", "done"}

\* C23: once _setup_frequency_bands has returned, durations[b] is the segment
\* duration halved b times; every band after the first lasts longer than
\* max(time_offset, minimum_banding_duration) and starts below
\* min(maximum_frequency, maximum_banding_frequency); the candidate that follows
\* the last band is too short, or its search returned None, or it starts too
\* high; and fb_dfb has one entry more than durations, the last one being
\* (maximum_frequency + delta_f_end, delta_f_end).
C23_BandsHalveWithinLimits ==
    BandsBuilt =>
        LET a == mb.args
            n == Len(mb.durations)
            limit == IF a.time_offset >= a.minimum_banding_duration
                     THEN a.time_offset ELSE a.minimum_banding_duration
            top == IF a.maximum_frequency <= a.maximum_banding_frequency
                   THEN a.maximum_frequency ELSE a.maximum_banding_frequency
            candidate == SegmentDuration \div 2^n
        IN  /\ \A b \in 1..n : mb.durations[b] * 2^(b - 1) = SegmentDuration
            /\ \A b \in 2..n : mb.durations[b] > limit /\ mb.fb_dfb[b][1] < top
            /\ \A b \in 2..n : mb.fb_dfb[b][1] > mb.fb_dfb[b - 1][1]
            /\ \/ candidate <= limit
               \/ /\ mb.found.duration = candidate
                  /\ mb.found.fnow = mb.fb_dfb[n][1]
                  /\ \/ mb.found.kind = "none"
                     \/ mb.found.kind = "pair" /\ mb.found.f >= top
            /\ Len(mb.fb_dfb) = n + 1
            /\ mb.fb_dfb[n + 1] = <<a.maximum_frequency + a.delta_f_end, a.delta_f_end>>

C23_Witness ==
    /\ mb.pc = "done"
    /\ Len(mb.durations) >= 3
    /\ mb.found.kind = "pair"
(***************************************************************************)
(* The search of a band's starting frequency (SpecBands).                  *)
(***************************************************************************)
Searched == mb.found.duration > 0

\* C24: _find_starting_frequency(duration, fnow) returns (None, None) or a pair
\* (f, df) with fnow < f <= maximum_banding_frequency, df = 1/sqrt(-dtau/df) at
\* f, and f satisfying both inequalities of the search; it returns for every
\* input and never reads f before the bisection assigned it.
C24_StartingFrequencyFound ==
    Searched =>
        /\ mb.found.kind \in {"none", "pair"}
        /\ mb.found.kind = "pair" =>
               /\ mb.found.fnow < mb.found.f
               /\ mb.found.f <= mb.args.maximum_banding_frequency
               /\ mb.found.df = inverse_sqrt_minus_dtaudf(mb.args.reference_chirp_mass,
                                                          mb.found.f)
               /\ is_above_fnext(mb.args, mb.found.duration, mb.found.fnow, mb.found.f)
(***************************************************************************)
(* The banded frequency points (SpecBands).                                *)
(***************************************************************************)
\* the points of band b as the slice start_end_idxs[b] of the banded points gives them
BandSlice(b) ==
    [j \in 1..(mb.start_end_idxs[b][2] - mb.start_end_idxs[b][1] + 1) |->
        mb.banded_frequency_points[mb.start_end_idxs[b][1] + j]]

\* C25: after setup_multibanding the waveform frequencies are the distinct
\* banded frequency points in increasing order, and indexing them by
\* unique_to_original_frequencies gives banded_frequency_points back; the slice
\* start_end_idxs[b] holds the points k / durations[b] for k = Ks .. Ke of band
\* b, the slices follow one another from 0 to the end of the array, and
\* linear_coeffs and quadratic_coeffs are as long as banded_frequency_points.
C25_BandedPointsReconstructed ==
    mb.pc = "done" =>
        LET points == mb.banded_frequency_points
            n == Len(mb.durations)
        IN  /\ \A i \in 1..(Len(mb.frequencies) - 1) :
                   mb.frequencies[i] < mb.frequencies[i + 1]
            /\ {mb.frequencies[i] : i \in 1..Len(mb.frequencies)}
                   = {points[i] : i \in 1..Len(points)}
            /\ Len(mb.unique_to_original_frequencies) = Len(points)
            /\ \A i \in 1..Len(points) :
                   mb.frequencies[mb.unique_to_original_frequencies[i] + 1] = points[i]
            /\ Len(mb.start_end_idxs) = n
            /\ mb.start_end_idxs[1][1] = 0
            /\ \A b \in 2..n : mb.start_end_idxs[b][1] = mb.start_end_idxs[b - 1][2] + 1
            /\ mb.start_end_idxs[n][2] = Len(points) - 1
            /\ \A b \in 1..n :
                   /\ Len(BandSlice(b)) = mb.Ks_Ke[b][2] - mb.Ks_Ke[b][1] + 1
                   /\ \A j \in 1..Len(BandSlice(b)) :
                          BandSlice(b)[j] * mb.durations[b]
                              = (mb.Ks_Ke[b][1] + j - 1) * SegmentDuration
            /\ mb.linear_coeffs = Len(points)
            /\ mb.quadratic_coeffs = Len(points)

C25_Witness ==
    /\ mb.pc = "done"
    /\ Len(mb.durations) >= 3
    /\ Len(mb.frequencies) < Len(mb.banded_frequency_points)
    /\ \A b \in 1..Len(mb.durations) : mb.Ks_Ke[b][1] < mb.Ks_Ke[b][2]

(***************************************************************************)
(* Evaluation after reconstruction (Spec).                                 *)
(***************************************************************************)
\* C26: with calibration marginalization and no time marginalization,
\* log_likelihood_ratio returns a real scalar after any earlier operations on
\* the object, a reconstruction that left 'recalib_index' in parameters
\* included: it never raises.
C26_EvaluationAfterReconstruction ==
    ( /\ ret.op = "llr"
      /\ calibration_marginalization
      /\ ~time_marginalization ) =>
        /\ ret.kind = "value"
        /\ ret.scalar

(***************************************************************************)
(* The time sample (SpecTimeSample).                                       *)
(***************************************************************************)
\* C27: with jitter_time, generate_time_sample_from_marginalized_likelihood
\* leaves parameters['geocent_time'] at its value at entry.
C27_TimeSampleRestoresTime ==
    (ret.op = "time_sample" /\ jitter_time) => parameters.geocent_time = ret.gt_entry

(***************************************************************************)
(* The time grid (SpecTimeGrid).                                           *)
(***************************************************************************)
\* C28: _times has one entry per FFT output bin, 2 / sampling_frequency
\* apart, and the prior weight of bin k (from 0) is the prior at the time the
\* bin shifts the template to, geocent_time + k * delta_tc, the mapping of
\* bins to times that generate_time_sample_from_marginalized_likelihood uses
\* (there up to a whole number of durations).
C28_PriorWeightAtBinTime ==
    /\ tgrid.op # "none" =>
           /\ Len(tgrid.times) = tgrid.bins
           /\ 2 = tgrid.delta_tc * tgrid.sampling_frequency
           /\ \A k \in 1..(Len(tgrid.times) - 1) :
                  tgrid.times[k + 1] - tgrid.times[k] = tgrid.delta_tc
    /\ tgrid.op \in {"time_marginalized_likelihood", "generate_time_sample"} =>
           \A k \in 0..(tgrid.bins - 1) :
               tgrid.time_prior_array[k + 1] =
                   prob(tgrid.prior, tgrid.geocent_time + k * tgrid.delta_tc)
                       * tgrid.delta_tc
    /\ tgrid.op = "generate_time_sample" =>
           \A k \in 0..(tgrid.bins - 1) :
               (tgrid.sample_times[k + 1] - (tgrid.geocent_time + k * tgrid.delta_tc))
                   % tgrid.duration = 0
(***************************************************************************)
(* Termination of the band setup (SpecBandsLive).                          *)
(***************************************************************************)
\* C29: the loop of _setup_frequency_bands ends, by leaving the loop or by
\* raising, whatever time_offset and minimum_banding_duration are (both <= 0
\* included): it takes finitely many passes, and so does every bisection of
\* _find_starting_frequency in it.
C29_SetupTerminates ==
    (mb.pc \in {"while", "bisect"}) ~> (mb.pc \in {"end", "raised"})

C29_Witness ==
    /\ mb.pc = "end"
    /\ mb.args.time_offset <= 0
    /\ mb.args.minimum_banding_duration <= 0
    /\ Len(mb.durations) >= 4

\* the spacing of the time samples
TimeSpace == grid.time_samples[2] - grid.time_samples[1]

\* the time prior widened by the light crossing time and five steps lies
\* inside the data segment
Unclipped == ~grid.start_clipped /\ ~grid.end_clipped

\* C30: the time samples _set_weights builds are contiguous and uniformly
\* spaced; when the widened window is not clipped they span the time prior
\* widened on both sides by the light crossing time plus five steps, and every
\* geocent_time inside the prior, with any detector delay up to the light
\* crossing time, is in bounds.
C30_PriorTimesInBounds ==
    (grid.op # "none" /\ Len(grid.time_samples) >= 2) =>
        /\ \A k \in 1..(Len(grid.time_samples) - 1) :
               grid.time_samples[k + 1] - grid.time_samples[k] = TimeSpace
        /\ Unclipped =>
               /\ grid.time_samples[1] <=
                      grid.minimum - grid.start_time - LightCrossing - 5 * TimeSpace
               /\ grid.time_samples[Len(grid.time_samples)] >=
                      grid.maximum - grid.start_time + LightCrossing + 5 * TimeSpace
        /\ ( /\ Unclipped
             /\ grid.op = "calculate_snrs"
             /\ grid.geocent_time \in grid.minimum..grid.maximum ) => grid.in_bounds

\* a time at the end of the prior with a delay of the light crossing time, found in bounds in
\* an unclipped window, on a segment that does not start at 0
C30_Witness ==
    /\ grid.op = "calculate_snrs"
    /\ Unclipped
    /\ grid.start_time # 0
    /\ grid.geocent_time = grid.maximum
    /\ grid.maximum > grid.minimum
    /\ grid.dt = LightCrossing
    /\ grid.in_bounds

====
